---- MODULE Spec2Model ----
(***************************************************************************)
(* Model of the "monthly best friends wall" engine of                      *)
(* wechat_decrypt_tool/wrapped/cards/card_04_monthly_best_friends_wall.py: *)
(* the single forward pass over the rows of the search index that builds   *)
(* one _MonthConvAgg per (conversation, month), the eligibility filter,    *)
(* the scorer, the month winner selection and the year summary.            *)
(*                                                                         *)
(* Conventions.                                                            *)
(*  - A Python Optional is a sequence: <<>> is None, <<x>> is the value x. *)
(*  - _MonthConvAgg objects live in the heap `aggs` and are referred to by *)
(*    their index, so that aliasing between the in-progress map and the    *)
(*    month pool is visible.                                               *)
(*  - Floats are fixed point: a score component is an integer number of    *)
(*    1/SCALE, the final score an integer number of 1/(100*SCALE); the     *)
(*    average reply gap is kept as the fraction sum/replies and compared   *)
(*    by cross multiplication.                                             *)
(*  - Timestamps are epoch seconds of the year 1970 read in UTC, so that   *)
(*    they stay small; datetime.fromtimestamp is computed from the         *)
(*    calendar of that year.                                               *)
(***************************************************************************)
EXTENDS Integers, Sequences, FiniteSets, TLC

VARIABLES
    pc,               \* position in compute_monthly_best_friends_wall_stats
    cursor_row,       \* sort key of the row the cursor delivered last (ORDER BY)
    fetched,          \* number of rows the cursor has delivered
    consumed,         \* the rows delivered so far (kept by the traced cursor only)
    cur_username,     \* nonlocal cur_username
    conv_month_aggs,  \* nonlocal conv_month_aggs: month -> heap index
    prev_other_ts,    \* nonlocal prev_other_ts: Optional timestamp
    per_month_aggs,   \* per_month_aggs: month -> list of heap indices
    aggs,             \* heap of _MonthConvAgg objects
    month_winner_raw, \* month_winner_raw: month -> [agg, score]
    months,           \* the months list of the result
    summary,          \* the summary of the result
    used_index,       \* used_index
    index_status,     \* index_status: Optional status record
    index,            \* the search index of the account, as its collaborators report it
    gate_calls,       \* the calls made on the index collaborators, in order
    calls,            \* the frames of two concurrent invocations (SpecPair only)
    arg,              \* the arguments of the function applied (the specifications of pure functions)
    ret,              \* Optional outcome of that application
    message_edits,    \* the rows of the table message_edits of chat_edit_store
    store_log,        \* the calls made on chat_edit_store and what they returned, in order
    sse_pc,           \* position in generate_progress of decrypt_databases_stream
    sse_events,       \* what generate_progress has yielded so far
    sse_env,          \* the request of generate_progress and the world it runs in
    sse_locals,       \* the local variables of generate_progress
    headers,          \* the headers mapping handed to add_sns_stage_timing_headers
    timing_calls,     \* the calls of add_sns_stage_timing_headers made on headers, in order
    http,             \* the request under a route handler, its world and its answer
    upsert_calls      \* the frames of the overlapping calls of upsert_original_once

\* The variables of the index readiness gate and of the concurrent invocations.
gate_vars == <<used_index, index_status, index, gate_calls>>

\* The variables of the wall engine.
engine_vars == <<pc, cursor_row, fetched, consumed, cur_username, conv_month_aggs,
                 prev_other_ts, per_month_aggs, aggs, month_winner_raw, months, summary,
                 gate_vars, calls>>

\* The variables of the other modules of the package: the function under
\* application, the message edit store, the decrypt stream, the timing headers.
fn_vars == <<arg, ret>>
store_vars == <<message_edits, store_log>>
sse_vars == <<sse_pc, sse_events, sse_env, sse_locals>>
timing_vars == <<headers, timing_calls>>
web_vars == <<http, upsert_calls>>
lib_vars == <<fn_vars, store_vars, sse_vars, timing_vars, web_vars>>

vars == <<engine_vars, lib_vars>>

(***************************************************************************)
(* Bounds of the model.                                                    *)
(***************************************************************************)
\* rows the untraced cursor delivers at most
MaxRows == 17
\* rows of one conversation the untraced cursor delivers at most
MaxConvRows == 9
\* rows the traced cursor delivers at most
MaxTrace == 4
\* months of the year in which the drawn index contents hold messages
MaxPoolMonths == 3
\* rows the cursor delivers at most to the invocation that went through the gate
MaxGateRows == 3
\* number of concurrent invocations
MaxCalls == 2
\* aggregates in the January pool of the drawn rankings
MaxRankAggs == 2
\* rows the cursor over the rows around the day and window boundaries delivers at most
MaxClock == 4
\* incoming or outgoing messages of an aggregate handed to the scorer on its own
MaxScoreCount == 5
\* characters of a message id handed to parse_message_id
MaxIdLen == 6
\* characters of a db or table name handed to format_message_id
MaxNameLen == 2
\* largest local_id handed to format_message_id
MaxLocalId == 10
\* characters of a text value in a payload handed to dumps_json_with_blobs
MaxTextLen == 4
\* bytes of a blob in a payload handed to dumps_json_with_blobs
MaxBlobLen == 2
\* calls made on the message edit store
MaxStoreCalls == 3
\* calls of add_sns_stage_timing_headers on one headers mapping
MaxApply == 2
\* database files found under db_storage_path
MaxDatabases == 2
\* heartbeat comments of one decrypt stream
MaxPings == 1

(***************************************************************************)
(* Program constants.                                                      *)
(***************************************************************************)
gap_cap_seconds == 21600
tau_seconds == 1800
minTotalMessages == 8
minInteraction == 3
minReplyCount == 1
minActiveDays == 2
weight_interaction == 40
weight_speed == 30
weight_continuity == 20
weight_coverage == 10
\* fixed-point unit of a score component
SCALE == 10000
\* start_ts of the modelled year (1970, UTC)
YearStart == 0

Months == 1..12
None == <<>>
Some(x) == <<x>>

my_username == "wxid_me"

Max(a, b) == IF a >= b THEN a ELSE b
Min(a, b) == IF a <= b THEN a ELSE b

(***************************************************************************)
(* str(...).strip() on the usernames of the model.                         *)
(***************************************************************************)
Strip(s) ==
    CASE s = " wxid_b" -> "wxid_b"
      [] s = " " -> ""
      [] OTHER -> s

\* The raw usernames of the model in ascending (binary collation) order.
RawOrder == <<"", " ", " wxid_b", "gh_news", "wxid_a", "wxid_b", "wxid_me">>

RawRank(s) == CHOOSE i \in 1..Len(RawOrder) : RawOrder[i] = s

\* Python's str < str on the model's usernames.
StrLess(a, b) == RawRank(a) < RawRank(b)

\* _should_keep_session(username, include_official=False): official accounts are dropped.
ShouldKeepSession(username) == username \notin {"gh_news"}

(***************************************************************************)
(* datetime.fromtimestamp(ts) for the year 1970.                           *)
(***************************************************************************)
DaysBeforeMonth == <<0, 31, 59, 90, 120, 151, 181, 212, 243, 273, 304, 334, 365>>

DayOfYear(ts) == ts \div 86400

MonthOf(ts) == CHOOSE m \in Months :
    /\ DaysBeforeMonth[m] <= DayOfYear(ts)
    /\ DayOfYear(ts) < DaysBeforeMonth[m + 1]

DayOf(ts) == DayOfYear(ts) - DaysBeforeMonth[MonthOf(ts)] + 1

HourOf(ts) == (ts % 86400) \div 3600

\* int(datetime(1970, mo, d, h, mi, s).timestamp())
Ts(mo, d, h, mi, s) == YearStart + (DaysBeforeMonth[mo] + d - 1) * 86400 + h * 3600 + mi * 60 + s

(***************************************************************************)
(* _MonthConvAgg                                                           *)
(***************************************************************************)
NewAgg(username, month) ==
    [username |-> username, month |-> month, incoming |-> 0, outgoing |-> 0,
     replies |-> 0, sum_gap |-> 0, sum_gap_capped |-> 0, active_days |-> {},
     time_bucket_mask |-> 0]

Total(agg) == agg.incoming + agg.outgoing

Interaction(agg) == Min(agg.incoming, agg.outgoing)

ActiveDaysCount(agg) == Cardinality(agg.active_days)

Bit(mask, b) == (mask \div (2 ^ b)) % 2

TimeBucketCount(agg) ==
    LET m == agg.time_bucket_mask % 16
    IN Bit(m, 0) + Bit(m, 1) + Bit(m, 2) + Bit(m, 3)

\* mask | (1 << bucket)
OrBit(mask, bucket) == IF Bit(mask, bucket) = 1 THEN mask ELSE mask + 2 ^ bucket

\* Mutant: the bit of the bucket is added to the mask instead of or-ed into it.
Observe_AddBit(agg, day, hour) ==
    LET bucket == Max(0, Min(3, hour \div 6))
    IN [agg EXCEPT
          !.active_days = IF 1 <= day /\ day <= 31 THEN @ \cup {day} ELSE @,
          !.time_bucket_mask = @ + 2 ^ bucket]

\* observe(day, hour) of lines 82-87
Observe(agg, day, hour) ==
    LET bucket == Max(0, Min(3, hour \div 6))
    IN [agg EXCEPT
          !.active_days = IF 1 <= day /\ day <= 31 THEN @ \cup {day} ELSE @,
          !.time_bucket_mask = OrBit(@, bucket)]

\* avg_reply_seconds_capped() as the fraction <<numerator, denominator>>
AvgReplySecondsCapped(agg) ==
    IF agg.replies <= 0 THEN <<0, 1>> ELSE <<agg.sum_gap_capped, agg.replies>>

\* avg_reply_seconds() as the fraction <<numerator, denominator>>
AvgReplySeconds(agg) ==
    IF agg.replies <= 0 THEN <<0, 1>> ELSE <<agg.sum_gap, agg.replies>>

(***************************************************************************)
(* The pass over the rows of the cursor (lines 182-237).  The state of the *)
(* pass is threaded through the operators as a record.                     *)
(***************************************************************************)
NoAggs == [m \in Months |-> 0]

PassState == [cur_username |-> cur_username, conv_month_aggs |-> conv_month_aggs,
              prev_other_ts |-> prev_other_ts, per_month_aggs |-> per_month_aggs,
              aggs |-> aggs]

\* Mutant: the in-progress month map is not replaced by an empty one.
flush_conv_KeepMap(st) ==
    IF st.cur_username = "" THEN st
    ELSE [st EXCEPT
            !.per_month_aggs = [m \in Months |->
                IF st.conv_month_aggs[m] /= 0 /\ Total(st.aggs[st.conv_month_aggs[m]]) > 0
                THEN Append(st.per_month_aggs[m], st.conv_month_aggs[m])
                ELSE st.per_month_aggs[m]],
            !.prev_other_ts = None]

\* Mutant: prev_other_ts is not reset.
flush_conv_KeepPending(st) ==
    IF st.cur_username = "" THEN st
    ELSE [st EXCEPT
            !.per_month_aggs = [m \in Months |->
                IF st.conv_month_aggs[m] /= 0 /\ Total(st.aggs[st.conv_month_aggs[m]]) > 0
                THEN Append(st.per_month_aggs[m], st.conv_month_aggs[m])
                ELSE st.per_month_aggs[m]],
            !.conv_month_aggs = NoAggs]

\* flush_conv()
flush_conv(st) ==
    IF st.cur_username = "" THEN st
    ELSE [st EXCEPT
            !.per_month_aggs = [m \in Months |->
                IF st.conv_month_aggs[m] /= 0 /\ Total(st.aggs[st.conv_month_aggs[m]]) > 0
                THEN Append(st.per_month_aggs[m], st.conv_month_aggs[m])
                ELSE st.per_month_aggs[m]],
            !.conv_month_aggs = NoAggs,
            !.prev_other_ts = None]

\* Mutant: a new aggregate is created for every row.
GetOrCreateAgg_Always(st, username, month) ==
    [st EXCEPT
       !.aggs = Append(@, NewAgg(username, month)),
       !.conv_month_aggs[month] = Len(st.aggs) + 1]

\* agg = conv_month_aggs.get(month); if agg is None: create it and store it
GetOrCreateAgg(st, username, month) ==
    IF st.conv_month_aggs[month] /= 0 THEN st
    ELSE [st EXCEPT
            !.aggs = Append(@, NewAgg(username, month)),
            !.conv_month_aggs[month] = Len(st.aggs) + 1]

\* Mutant: prev_other_ts is not cleared after a reply credit.
ReplyStep_NoClear(agg, prev, is_me, ts) ==
    IF is_me
    THEN IF prev /= None /\ ts >= prev[1]
         THEN [agg |-> [agg EXCEPT !.outgoing = @ + 1,
                                   !.replies = @ + 1,
                                   !.sum_gap = @ + (ts - prev[1]),
                                   !.sum_gap_capped = @ + Min(ts - prev[1], gap_cap_seconds)],
               prev |-> prev]
         ELSE [agg |-> [agg EXCEPT !.outgoing = @ + 1], prev |-> prev]
    ELSE [agg |-> [agg EXCEPT !.incoming = @ + 1], prev |-> Some(ts)]

\* Mutant: an incoming message does not overwrite a pending timestamp.
ReplyStep_KeepFirst(agg, prev, is_me, ts) ==
    IF is_me
    THEN IF prev /= None /\ ts >= prev[1]
         THEN [agg |-> [agg EXCEPT !.outgoing = @ + 1,
                                   !.replies = @ + 1,
                                   !.sum_gap = @ + (ts - prev[1]),
                                   !.sum_gap_capped = @ + Min(ts - prev[1], gap_cap_seconds)],
               prev |-> None]
         ELSE [agg |-> [agg EXCEPT !.outgoing = @ + 1], prev |-> prev]
    ELSE [agg |-> [agg EXCEPT !.incoming = @ + 1],
          prev |-> IF prev /= None THEN prev ELSE Some(ts)]

\* Mutant: a pending timestamp later than the outgoing message earns a credit too.
ReplyStep_NoGuard(agg, prev, is_me, ts) ==
    IF is_me
    THEN IF prev /= None
         THEN [agg |-> [agg EXCEPT !.outgoing = @ + 1,
                                   !.replies = @ + 1,
                                   !.sum_gap = @ + (ts - prev[1]),
                                   !.sum_gap_capped = @ + Min(ts - prev[1], gap_cap_seconds)],
               prev |-> None]
         ELSE [agg |-> [agg EXCEPT !.outgoing = @ + 1], prev |-> prev]
    ELSE [agg |-> [agg EXCEPT !.incoming = @ + 1], prev |-> Some(ts)]

\* The is_me / else branches: the new fields of the aggregate and the new prev_other_ts.
ReplyStep(agg, prev, is_me, ts) ==
    IF is_me
    THEN IF prev /= None /\ ts >= prev[1]
         THEN [agg |-> [agg EXCEPT !.outgoing = @ + 1,
                                   !.replies = @ + 1,
                                   !.sum_gap = @ + (ts - prev[1]),
                                   !.sum_gap_capped = @ + Min(ts - prev[1], gap_cap_seconds)],
               prev |-> None]
         ELSE [agg |-> [agg EXCEPT !.outgoing = @ + 1], prev |-> prev]
    ELSE [agg |-> [agg EXCEPT !.incoming = @ + 1], prev |-> Some(ts)]

\* Mutant: the pending incoming timestamp is dropped when the row opens the
\* aggregate of a new month.
Accumulate_MonthScoped(st, username, sender, ts) ==
    LET month == MonthOf(ts)
        s1 == GetOrCreateAgg(st, username, month)
        id == s1.conv_month_aggs[month]
        observed == Observe(s1.aggs[id], DayOf(ts), HourOf(ts))
        pending == IF st.conv_month_aggs[month] = 0 THEN None ELSE s1.prev_other_ts
        step == ReplyStep(observed, pending, sender = my_username, ts)
    IN [s1 EXCEPT !.aggs[id] = step.agg, !.prev_other_ts = step.prev]

\* Lines 214-235: the row of a kept conversation is added to its month aggregate.
Accumulate(st, username, sender, ts) ==
    LET month == MonthOf(ts)
        s1 == GetOrCreateAgg(st, username, month)
        id == s1.conv_month_aggs[month]
        observed == Observe(s1.aggs[id], DayOf(ts), HourOf(ts))
        step == ReplyStep(observed, s1.prev_other_ts, sender = my_username, ts)
    IN [s1 EXCEPT !.aggs[id] = step.agg, !.prev_other_ts = step.prev]

\* Mutant: the test of the username is missing.
RowSkipped_TsOnly(r) == r.ts <= 0

\* A row is skipped when its timestamp is not positive or its username is empty.
\* (A create_time that is not a number is CAST to 0 by the query and int() of
\* the column cannot raise.)
RowSkipped(r) == r.ts <= 0 \/ Strip(r.username) = ""

\* Mutant: a row of a conversation seen earlier continues that conversation's
\* pooled aggregates instead of starting new ones (no flush on a change back).
ProcessRow_NoFlush(st, r) ==
    LET username == Strip(r.username)
        sender == Strip(r.sender)
        ts == r.ts
    IN IF RowSkipped(r) THEN st
       ELSE LET s1 == [st EXCEPT !.cur_username = username]
            IN IF ~ShouldKeepSession(username) THEN s1
               ELSE Accumulate(s1, username, sender, ts)

\* The body of `for row in cur` (lines 196-235).
ProcessRow(st, r) ==
    LET username == Strip(r.username)
        sender == Strip(r.sender)
        ts == r.ts
    IN IF RowSkipped(r) THEN st
       ELSE LET s1 == IF username /= st.cur_username
                      THEN [flush_conv(st) EXCEPT !.cur_username = username]
                      ELSE st
            IN IF ~ShouldKeepSession(username) THEN s1
               ELSE Accumulate(s1, username, sender, ts)

SetPassState(st) ==
    /\ cur_username' = st.cur_username
    /\ conv_month_aggs' = st.conv_month_aggs
    /\ prev_other_ts' = st.prev_other_ts
    /\ per_month_aggs' = st.per_month_aggs
    /\ aggs' = st.aggs

(***************************************************************************)
(* The cursor: rows come in the order of                                   *)
(* ORDER BY username ASC, ts ASC, sort_seq_i ASC, local_id_i ASC.          *)
(* sort_seq and local_id are never read by the pass and are left out.      *)
(***************************************************************************)
Row(u, sender, ts) == [username |-> u, sender |-> sender, ts |-> ts]

\* The columns of a row the ORDER BY clause sorts on.
SortKey(r) == [username |-> r.username, ts |-> r.ts]

\* The cursor before its first row and after conn.close().
NoRow == [username |-> "", ts |-> 0]

CursorOrder(prev, r) ==
    \/ RawRank(prev.username) < RawRank(r.username)
    \/ prev.username = r.username /\ prev.ts <= r.ts

\* Timestamps and rows of the untraced cursor.
TsWall == {Ts(1, 1, 23, 59, 30), Ts(1, 2, 0, 1, 30)}

RowsWall == {Row(u, s, t) : u \in {"wxid_a", "wxid_b"}, s \in {my_username, "peer"}, t \in TsWall}

\* Timestamps and rows of the traced cursor.
TsTrace == {Ts(1, 31, 23, 0, 0), Ts(1, 31, 23, 1, 0), Ts(1, 31, 23, 2, 0), Ts(2, 1, 6, 0, 0)}

RowsTrace ==
    {Row(u, s, t) : u \in {"wxid_a", "wxid_b"}, s \in {my_username, "peer"}, t \in TsTrace}
    \cup {Row(" wxid_b", s, t) : s \in {my_username, "peer"},
                                 t \in {Ts(1, 31, 23, 1, 0), Ts(2, 1, 6, 0, 0)}}
    \cup {Row("gh_news", "peer", Ts(1, 31, 23, 0, 0)),
          Row(" ", "peer", Ts(1, 31, 23, 0, 0)),
          Row("wxid_a", "peer", 0)}

\* Timestamps and rows around the boundaries of the six-hour windows, of the
\* days and of the months.
TsClock == {Ts(1, 1, 5, 59, 59), Ts(1, 1, 6, 0, 0), Ts(1, 1, 23, 59, 59), Ts(1, 2, 0, 0, 0),
            Ts(1, 31, 12, 0, 0), Ts(2, 1, 0, 0, 0)}

RowsClock ==
    {Row(u, s, t) : u \in {"wxid_a", "wxid_b"}, s \in {my_username, "peer"}, t \in TsClock}

\* Number of rows accumulated for the conversation in progress.
RECURSIVE ConvRowsUpTo(_)
ConvRowsUpTo(m) ==
    IF m = 0 THEN 0
    ELSE ConvRowsUpTo(m - 1)
         + (IF conv_month_aggs[m] = 0 THEN 0 ELSE Total(aggs[conv_month_aggs[m]]))

ConvRows == ConvRowsUpTo(12)

\* A record of one call on the index collaborators: the call, whether it raised,
\* the index at the time of the call and the rebuild argument of a build request.
GateCall(call, raised, seen, rebuild) ==
    [call |-> call, raised |-> raised, seen |-> seen, rebuild |-> rebuild]

\* An index that exists, holds the message_fts table and is query-ready.
UsableIndex == [exists |-> TRUE, has_fts |-> TRUE, ready |-> TRUE, build |-> "idle"]

\* Nothing of the other modules of the package is in use: no function is
\* applied, the edit store is empty, no decrypt stream runs, no response
\* headers are being written.
LibIdle ==
    /\ arg = None
    /\ ret = None
    /\ message_edits = {}
    /\ store_log = <<>>
    /\ sse_pc = "idle"
    /\ sse_events = <<>>
    /\ sse_env = None /\ sse_locals = None
    /\ headers = None
    /\ timing_calls = <<>>
    /\ http = None /\ upsert_calls = None

\* The pass has not started: lines 138 and 182-184, and nothing selected or composed.
InitPass ==
    /\ cursor_row = NoRow
    /\ fetched = 0
    /\ consumed = <<>>
    /\ cur_username = ""
    /\ conv_month_aggs = NoAggs
    /\ prev_other_ts = None
    /\ per_month_aggs = [m \in Months |-> <<>>]
    /\ aggs = <<>>
    /\ month_winner_raw = <<>>
    /\ months = <<>>
    /\ summary = None

\* No invocation of the wall engine is running.
EngineIdle ==
    /\ pc = "idle"
    /\ InitPass
    /\ used_index = TRUE
    /\ index_status = None
    /\ index = UsableIndex
    /\ gate_calls = <<>>
    /\ calls = <<>>

\* The index was found usable (line 149) and the cursor is open (line 180).
Init ==
    /\ LibIdle
    /\ pc = "rows"
    /\ InitPass
    /\ used_index = TRUE
    /\ index_status = None
    /\ index = UsableIndex
    /\ gate_calls = <<GateCall("open", FALSE, UsableIndex, FALSE)>>
    /\ calls = <<>>

\* One iteration of `for row in cur`.
FetchRow ==
    /\ pc = "rows"
    /\ fetched < MaxRows
    /\ \E r \in RowsWall :
         /\ CursorOrder(cursor_row, r)
         /\ Strip(r.username) = cur_username => ConvRows < MaxConvRows
         /\ cursor_row' = SortKey(r)
         /\ SetPassState(ProcessRow(PassState, r))
    /\ fetched' = fetched + 1
    /\ UNCHANGED <<pc, consumed, month_winner_raw, months, summary, gate_vars, calls, lib_vars>>

\* One iteration of `for row in cur`, the delivered rows being recorded.
FetchRowTraced ==
    /\ pc = "rows"
    /\ fetched < MaxTrace
    /\ \E r \in RowsTrace :
         /\ CursorOrder(cursor_row, r)
         /\ cursor_row' = SortKey(r)
         /\ consumed' = Append(consumed, r)
         /\ SetPassState(ProcessRow(PassState, r))
    /\ fetched' = fetched + 1
    /\ UNCHANGED <<pc, month_winner_raw, months, summary, gate_vars, calls, lib_vars>>

\* One iteration of `for row in cur` over the rows around the boundaries, the
\* delivered rows being recorded.
FetchRowClock ==
    /\ pc = "rows"
    /\ fetched < MaxClock
    /\ \E r \in RowsClock :
         /\ CursorOrder(cursor_row, r)
         /\ cursor_row' = SortKey(r)
         /\ consumed' = Append(consumed, r)
         /\ SetPassState(ProcessRow(PassState, r))
    /\ fetched' = fetched + 1
    /\ UNCHANGED <<pc, month_winner_raw, months, summary, gate_vars, calls, lib_vars>>

\* The cursor is exhausted: the flush_conv() of line 237.
EndOfRows ==
    /\ pc = "rows"
    /\ SetPassState(flush_conv(PassState))
    /\ cursor_row' = NoRow
    /\ pc' = "select"
    /\ UNCHANGED <<fetched, consumed, month_winner_raw, months, summary, gate_vars, calls, lib_vars>>

(***************************************************************************)
(* _score_month_agg (lines 90-116) in fixed point.                         *)
(***************************************************************************)
\* math.log1p(i) in units of 1/SCALE, for i = 0 .. 19 (entry i + 1)
Log1pTable == <<0, 6931, 10986, 13863, 16094, 17918, 19459, 20794, 21972, 23026,
                23979, 24849, 25649, 26391, 27081, 27726, 28332, 28904, 29444, 29957>>

Log1p(i) == Log1pTable[i + 1]

weights == [interaction |-> weight_interaction, speed |-> weight_speed,
            continuity |-> weight_continuity, coverage |-> weight_coverage]

\* Mutant: the average gap is multiplied by tau instead of divided by it.
SpeedScore_GapTimesTau(avg, tau) ==
    (avg[2] * SCALE) \div (avg[2] + avg[1] * Max(1, tau))

\* 1.0 / (1.0 + avg / max(1.0, tau)), avg being the fraction num/den
SpeedScore(avg, tau) ==
    (Max(1, tau) * avg[2] * SCALE) \div (Max(1, tau) * avg[2] + avg[1])

\* Mutant: the time bucket count is divided by 3.
score_month_agg_ThreeBuckets(agg, month_max_interaction, month_max_active_days, tau, w) ==
    LET max_interaction == Max(1, month_max_interaction)
        max_active == Max(1, month_max_active_days)
        interaction_score == (Log1p(Interaction(agg)) * SCALE) \div Log1p(max_interaction)
        speed_score == SpeedScore(AvgReplySecondsCapped(agg), tau)
        continuity_score == (ActiveDaysCount(agg) * SCALE) \div max_active
        coverage_score == (TimeBucketCount(agg) * SCALE) \div 3
    IN [interaction |-> interaction_score,
        speed |-> speed_score,
        continuity |-> continuity_score,
        coverage |-> coverage_score,
        final |-> w.interaction * interaction_score + w.speed * speed_score
                  + w.continuity * continuity_score + w.coverage * coverage_score]

score_month_agg(agg, month_max_interaction, month_max_active_days, tau, w) ==
    LET max_interaction == Max(1, month_max_interaction)
        max_active == Max(1, month_max_active_days)
        interaction_score == (Log1p(Interaction(agg)) * SCALE) \div Log1p(max_interaction)
        speed_score == SpeedScore(AvgReplySecondsCapped(agg), tau)
        continuity_score == (ActiveDaysCount(agg) * SCALE) \div max_active
        coverage_score == (TimeBucketCount(agg) * SCALE) \div 4
    IN [interaction |-> interaction_score,
        speed |-> speed_score,
        continuity |-> continuity_score,
        coverage |-> coverage_score,
        final |-> w.interaction * interaction_score + w.speed * speed_score
                  + w.continuity * continuity_score + w.coverage * coverage_score]

(***************************************************************************)
(* The month winner selection (lines 265-309).                             *)
(***************************************************************************)
\* Mutant: the reply-count test is missing.
Eligible_NoReplyTest(agg) ==
    /\ ~(Total(agg) < minTotalMessages)
    /\ ~(Interaction(agg) < minInteraction)
    /\ ~(ActiveDaysCount(agg) < minActiveDays)

\* Mutant: the total is compared with <= against the threshold minus one too many.
Eligible_OffByOne(agg) ==
    /\ ~(Total(agg) + 1 < minTotalMessages)
    /\ ~(Interaction(agg) < minInteraction)
    /\ ~(agg.replies < minReplyCount)
    /\ ~(ActiveDaysCount(agg) < minActiveDays)

\* The four `continue` tests of lines 271-278.
Eligible(agg) ==
    /\ ~(Total(agg) < minTotalMessages)
    /\ ~(Interaction(agg) < minInteraction)
    /\ ~(agg.replies < minReplyCount)
    /\ ~(ActiveDaysCount(agg) < minActiveDays)

\* eligible: the sublist of a month's pool that passes the tests, in pool order
EligibleIds(heap, pool) ==
    LET Test(id) == Eligible(heap[id]) IN SelectSeq(pool, Test)

\* max(...) over a non-empty collection of numbers
SetMax(v) == CHOOSE x \in v : \A y \in v : y <= x

\* Mutant: the final score enters the key unnegated, so the lowest score sorts first.
TieKey_LowestFirst(agg, score) ==
    [nfinal |-> score.final,
     ninteraction |-> 0 - Interaction(agg),
     avg |-> AvgReplySecondsCapped(agg),
     ndays |-> 0 - ActiveDaysCount(agg),
     username |-> agg.username]

\* Mutant: the username is left out of the key.
TieKey_NoUsername(agg, score) ==
    [nfinal |-> 0 - score.final,
     ninteraction |-> 0 - Interaction(agg),
     avg |-> AvgReplySecondsCapped(agg),
     ndays |-> 0 - ActiveDaysCount(agg),
     username |-> ""]

\* tie_key of lines 295-301
TieKey(agg, score) ==
    [nfinal |-> 0 - score.final,
     ninteraction |-> 0 - Interaction(agg),
     avg |-> AvgReplySecondsCapped(agg),
     ndays |-> 0 - ActiveDaysCount(agg),
     username |-> agg.username]

FracLess(a, b) == a[1] * b[2] < b[1] * a[2]
FracEq(a, b) == a[1] * b[2] = b[1] * a[2]

\* Python's tuple comparison k1 < k2 of two tie keys
KeyLess(k1, k2) ==
    \/ k1.nfinal < k2.nfinal
    \/ /\ k1.nfinal = k2.nfinal
       /\ \/ k1.ninteraction < k2.ninteraction
          \/ /\ k1.ninteraction = k2.ninteraction
             /\ \/ FracLess(k1.avg, k2.avg)
                \/ /\ FracEq(k1.avg, k2.avg)
                   /\ \/ k1.ndays < k2.ndays
                      \/ /\ k1.ndays = k2.ndays
                         /\ StrLess(k1.username, k2.username)

\* list.sort(key=...): a stable sort, here by insertion
RECURSIVE InsertSorted(_, _)
InsertSorted(sorted, x) ==
    IF sorted = <<>> THEN <<x>>
    ELSE IF KeyLess(x.key, sorted[Len(sorted)].key)
         THEN Append(InsertSorted(SubSeq(sorted, 1, Len(sorted) - 1), x), sorted[Len(sorted)])
         ELSE Append(sorted, x)

RECURSIVE SortScored(_)
SortScored(scored) ==
    IF scored = <<>> THEN <<>>
    ELSE InsertSorted(SortScored(SubSeq(scored, 1, Len(scored) - 1)), scored[Len(scored)])

\* scored: one (tie_key, agg, score) per eligible aggregate (lines 284-302)
Scored(heap, eligible) ==
    LET month_max_interaction ==
            SetMax({Interaction(heap[eligible[i]]) : i \in 1..Len(eligible)})
        month_max_active_days ==
            SetMax({ActiveDaysCount(heap[eligible[i]]) : i \in 1..Len(eligible)})
    IN [i \in 1..Len(eligible) |->
          LET score == score_month_agg(heap[eligible[i]], month_max_interaction,
                                       month_max_active_days, tau_seconds, weights)
          IN [key |-> TieKey(heap[eligible[i]], score), agg |-> eligible[i], score |-> score]]

\* Mutant: the list is not sorted before its first entry is taken.
PickWinner_NoSort(scored) == scored[1]

\* The winner of line 304: scored[0] after the sort
PickWinner(scored) == SortScored(scored)[1]

\* Mutant: the month maxima are taken over the whole pool of the month.
MonthWinner_MaxOverPool(heap, pool) ==
    LET eligible == EligibleIds(heap, pool)
        month_max_interaction == SetMax({Interaction(heap[pool[i]]) : i \in 1..Len(pool)})
        month_max_active_days == SetMax({ActiveDaysCount(heap[pool[i]]) : i \in 1..Len(pool)})
        scored == [i \in 1..Len(eligible) |->
                     LET score == score_month_agg(heap[eligible[i]], month_max_interaction,
                                                  month_max_active_days, tau_seconds, weights)
                     IN [key |-> TieKey(heap[eligible[i]], score), agg |-> eligible[i],
                         score |-> score]]
    IN IF eligible = <<>> THEN None
       ELSE LET w == PickWinner(scored)
            IN Some([agg |-> w.agg, score |-> w.score])

\* One iteration of `for month in range(1, 13)` (lines 267-309): Optional winner pack
MonthWinner(heap, pool) ==
    LET eligible == EligibleIds(heap, pool)
    IN IF eligible = <<>> THEN None
       ELSE LET w == PickWinner(Scored(heap, eligible))
            IN Some([agg |-> w.agg, score |-> w.score])

\* Mutant: a conversation that won the month before is left out of the pool of
\* the month (the winners of the months 1..m).
RECURSIVE WinnersNoRepeat(_, _, _)
WinnersNoRepeat(heap, pool, m) ==
    IF m = 0 THEN <<>>
    ELSE LET prev == WinnersNoRepeat(heap, pool, m - 1)
             Fresh(id) == ~(/\ (m - 1) \in DOMAIN prev
                            /\ heap[prev[m - 1].agg].username = heap[id].username)
             w == MonthWinner(heap, SelectSeq(pool[m], Fresh))
         IN IF w = None THEN prev
            ELSE [x \in (DOMAIN prev) \cup {m} |-> IF x = m THEN w[1] ELSE prev[x]]

SelectWinners_NoRepeat ==
    /\ pc = "select"
    /\ month_winner_raw' = WinnersNoRepeat(aggs, per_month_aggs, 12)
    /\ pc' = "compose"
    /\ UNCHANGED <<cursor_row, fetched, consumed, cur_username, conv_month_aggs,
                   prev_other_ts, per_month_aggs, aggs, months, summary, gate_vars, calls, lib_vars>>

\* The loop of lines 265-309.
SelectWinners ==
    /\ pc = "select"
    /\ month_winner_raw' =
         [m \in {x \in Months : MonthWinner(aggs, per_month_aggs[x]) /= None} |->
            MonthWinner(aggs, per_month_aggs[m])[1]]
    /\ pc' = "compose"
    /\ UNCHANGED <<cursor_row, fetched, consumed, cur_username, conv_month_aggs,
                   prev_other_ts, per_month_aggs, aggs, months, summary, gate_vars, calls, lib_vars>>

(***************************************************************************)
(* The result (lines 320-406).  The display name, masked name, avatar URL  *)
(* and score100 of a winner are presentation only and are left out.        *)
(***************************************************************************)
\* Mutant: the entry of a month without winner carries no reason.
MonthEntry_NoReason(heap, winners, month) ==
    IF month \notin DOMAIN winners
    THEN [month |-> month, winner |-> None, metrics |-> None, raw |-> None,
          isFallback |-> FALSE, reason |-> None]
    ELSE LET agg == heap[winners[month].agg]
             score == winners[month].score
         IN [month |-> month,
             winner |-> Some([username |-> agg.username, score |-> score.final]),
             metrics |-> Some([interactionScore |-> score.interaction,
                               speedScore |-> score.speed,
                               continuityScore |-> score.continuity,
                               coverageScore |-> score.coverage]),
             raw |-> Some([incomingMessages |-> agg.incoming,
                           outgoingMessages |-> agg.outgoing,
                           totalMessages |-> Total(agg),
                           interaction |-> Interaction(agg),
                           replyCount |-> agg.replies,
                           avgReplySeconds |-> AvgReplySeconds(agg),
                           avgReplySecondsCapped |-> AvgReplySecondsCapped(agg),
                           activeDays |-> ActiveDaysCount(agg),
                           timeBucketsCount |-> TimeBucketCount(agg)]),
             isFallback |-> FALSE,
             reason |-> None]

\* One entry of `months` (lines 321-372)
MonthEntry(heap, winners, month) ==
    IF month \notin DOMAIN winners
    THEN [month |-> month, winner |-> None, metrics |-> None, raw |-> None,
          isFallback |-> FALSE, reason |-> Some("insufficient_data")]
    ELSE LET agg == heap[winners[month].agg]
             score == winners[month].score
         IN [month |-> month,
             winner |-> Some([username |-> agg.username, score |-> score.final]),
             metrics |-> Some([interactionScore |-> score.interaction,
                               speedScore |-> score.speed,
                               continuityScore |-> score.continuity,
                               coverageScore |-> score.coverage]),
             raw |-> Some([incomingMessages |-> agg.incoming,
                           outgoingMessages |-> agg.outgoing,
                           totalMessages |-> Total(agg),
                           interaction |-> Interaction(agg),
                           replyCount |-> agg.replies,
                           avgReplySeconds |-> AvgReplySeconds(agg),
                           avgReplySecondsCapped |-> AvgReplySecondsCapped(agg),
                           activeDays |-> ActiveDaysCount(agg),
                           timeBucketsCount |-> TimeBucketCount(agg)]),
             isFallback |-> FALSE,
             reason |-> None]

BuildMonths(heap, winners) == [m \in Months |-> MonthEntry(heap, winners, m)]

\* winner_month_counts (lines 374-382): username -> number of months won
WinnerMonthCounts(ms) ==
    LET names == {Strip(ms[i].winner[1].username) :
                    i \in {j \in 1..Len(ms) : ms[j].winner /= None}} \ {""}
    IN [u \in names |->
          Cardinality({i \in 1..Len(ms) :
                         ms[i].winner /= None /\ Strip(ms[i].winner[1].username) = u})]

\* Mutant: the items are sorted by (count, username) in reverse, so that among
\* the conversations with the highest count the greatest username comes first.
TopChampion_ReverseSort(counts) ==
    IF DOMAIN counts = {} THEN None
    ELSE LET champion_username == CHOOSE u \in DOMAIN counts :
                 \A v \in DOMAIN counts \ {u} :
                     \/ counts[u] > counts[v]
                     \/ counts[u] = counts[v] /\ StrLess(v, u)
         IN Some([username |-> champion_username, monthsWon |-> counts[champion_username]])

\* top_champion (lines 384-395): first of sorted(items, key=(-count, username))
TopChampion(counts) ==
    IF DOMAIN counts = {} THEN None
    ELSE LET champion_username == CHOOSE u \in DOMAIN counts :
                 \A v \in DOMAIN counts \ {u} :
                     \/ counts[u] > counts[v]
                     \/ counts[u] = counts[v] /\ StrLess(u, v)
         IN Some([username |-> champion_username, monthsWon |-> counts[champion_username]])

\* Mutant: the position in the filtered list is taken for the month.
FilledMonths_Positions(ms) ==
    LET HasWinner(x) == x.winner /= None
        filled == SelectSeq(ms, HasWinner)
    IN [i \in 1..Len(filled) |-> i]

\* filled_months (line 397)
FilledMonths(ms) ==
    LET HasWinner(x) == x.winner /= None
        filled == SelectSeq(ms, HasWinner)
    IN [i \in 1..Len(filled) |-> filled[i].month]

BuildSummary(ms) ==
    [monthsWithWinner |-> Len(FilledMonths(ms)),
     topChampion |-> TopChampion(WinnerMonthCounts(ms)),
     filledMonths |-> FilledMonths(ms)]

\* Lines 311-425: the months list and the summary are built and returned.
ComposeResult ==
    /\ pc = "compose"
    /\ months' = BuildMonths(aggs, month_winner_raw)
    /\ summary' = Some(BuildSummary(BuildMonths(aggs, month_winner_raw)))
    /\ pc' = "done"
    /\ UNCHANGED <<cursor_row, fetched, consumed, cur_username, conv_month_aggs,
                   prev_other_ts, per_month_aggs, aggs, month_winner_raw, gate_vars, calls, lib_vars>>

\* month_winner_raw after the loop of lines 265-309.
Winners(heap, pool) ==
    [m \in {x \in Months : MonthWinner(heap, pool[x]) /= None} |->
        MonthWinner(heap, pool[m])[1]]

\* The months and the summary returned for the pass state st (lines 265-406).
ResultOf(st) ==
    LET ms == BuildMonths(st.aggs, Winners(st.aggs, st.per_month_aggs))
    IN [months |-> ms, summary |-> BuildSummary(ms)]

\* build_card_04_monthly_best_friends_wall (lines 428-453), the narrative left out.
build_card_04(data) ==
    [id |-> 4, scope |-> "global", category |-> "B", status |-> "ok",
     kind |-> "chat/monthly_best_friends_wall", data |-> data]

(***************************************************************************)
(* The pass as a whole (lines 182-237), and index contents that make       *)
(* conversations eligible in several months.                               *)
(***************************************************************************)
\* The locals of lines 138 and 182-184 before the first row.
PassStart ==
    [cur_username |-> "", conv_month_aggs |-> NoAggs, prev_other_ts |-> None,
     per_month_aggs |-> [m \in Months |-> <<>>], aggs |-> <<>>]

\* `for row in cur` over the rows of a cursor.
RECURSIVE RunPass(_, _)
RunPass(st, rows) ==
    IF rows = <<>> THEN st ELSE RunPass(ProcessRow(st, Head(rows)), Tail(rows))

\* The pass over all rows of a cursor, the final flush_conv() included.
PassOf(rows) == flush_conv(RunPass(PassStart, rows))

\* An incoming message of conversation u and the answer to it gap seconds later.
Exchange(u, m, d, h, gap) ==
    <<Row(u, "peer", Ts(m, d, h, 0, 0)), Row(u, my_username, Ts(m, d, h, 0, 0) + gap)>>

\* The rows of conversation u in month m, by activity profile.
\*   low    : 2 messages, one day: fails the thresholds
\*   weak   : 8 messages on 2 days in one time bucket, replies after 30 minutes
\*   strong : 8 messages on 2 days in three time buckets, replies after 1 minute
Script(p, u, m) ==
    CASE p = "low" -> Exchange(u, m, 1, 10, 60)
      [] p = "weak" -> Exchange(u, m, 1, 10, 1800) \o Exchange(u, m, 1, 11, 1800)
                       \o Exchange(u, m, 2, 10, 1800) \o Exchange(u, m, 2, 11, 1800)
      [] p = "strong" -> Exchange(u, m, 1, 5, 60) \o Exchange(u, m, 1, 13, 60)
                         \o Exchange(u, m, 2, 19, 60) \o Exchange(u, m, 2, 23, 60)
      [] OTHER -> <<>>

\* The slots of the drawn index in cursor order: wxid_a before wxid_b, months ascending.
PoolSlots ==
    [i \in 1..(2 * MaxPoolMonths) |->
        IF i <= MaxPoolMonths THEN <<"wxid_a", i>> ELSE <<"wxid_b", i - MaxPoolMonths>>]

\* Number of rows of the first n slots.
RECURSIVE PoolRowCount(_, _)
PoolRowCount(c, n) ==
    IF n = 0 THEN 0
    ELSE PoolRowCount(c, n - 1) + Len(Script(c[n], PoolSlots[n][1], PoolSlots[n][2]))

\* The aggregate the pass builds from the rows of one slot.
ScriptAggs ==
    [p \in {"low", "weak", "strong"}, i \in 1..(2 * MaxPoolMonths) |->
        PassOf(Script(p, PoolSlots[i][1], PoolSlots[i][2])).aggs[1]]

\* The result of the pass over the rows of all slots, c giving the profile of
\* each slot.  Every script
\* starts with an incoming message and ends with its answer, so the pending
\* timestamp carried from one month of a conversation into the next is
\* overwritten before it is used, and the aggregate of a slot is the one of its
\* rows alone; flush_conv appends a conversation's aggregates in month order.
PoolPass(c) ==
    LET Present(i) == c[i] /= "absent"
        present == SelectSeq([i \in 1..(2 * MaxPoolMonths) |-> i], Present)
        ids == [k \in 1..Len(present) |-> k]
    IN [cur_username |-> IF present = <<>> THEN ""
                         ELSE PoolSlots[present[Len(present)]][1],
        conv_month_aggs |-> NoAggs,
        prev_other_ts |-> None,
        per_month_aggs |-> [m \in Months |->
            LET InMonth(k) == PoolSlots[present[k]][2] = m IN SelectSeq(ids, InMonth)],
        aggs |-> [k \in 1..Len(present) |-> ScriptAggs[c[present[k]], present[k]]]]

\* The profiles of the slots: wxid_a is absent, weak or strong in a month,
\* wxid_b absent, low, weak or strong.
PoolChoices ==
    {c \in [1..(2 * MaxPoolMonths) -> {"absent", "low", "weak", "strong"}] :
        \A i \in 1..MaxPoolMonths : c[i] /= "low"}

\* The state at line 265 after the pass over an index of up to two conversations.
InitPool ==
    /\ LibIdle
    /\ pc = "select"
    /\ cursor_row = NoRow
    /\ consumed = <<>>
    /\ month_winner_raw = <<>>
    /\ months = <<>>
    /\ summary = None
    /\ used_index = TRUE
    /\ index_status = None
    /\ index = UsableIndex
    /\ gate_calls = <<GateCall("open", FALSE, UsableIndex, FALSE)>>
    /\ calls = <<>>
    /\ \E c \in PoolChoices :
         LET st == PoolPass(c)
         IN /\ fetched = PoolRowCount(c, 2 * MaxPoolMonths)
            /\ cur_username = st.cur_username
            /\ conv_month_aggs = st.conv_month_aggs
            /\ prev_other_ts = st.prev_other_ts
            /\ per_month_aggs = st.per_month_aggs
            /\ aggs = st.aggs

(***************************************************************************)
(* The state after the pass over an index whose January holds up to        *)
(* MaxRankAggs conversation runs, each with an aggregate that passes the   *)
(* thresholds, drawn field by field: the rankings of one month.            *)
(***************************************************************************)
\* The conversation runs of the cursor in its order (ORDER BY username on the
\* raw column): " wxid_b", then "wxid_a", then "wxid_b"; after strip() the
\* first and the last are the same conversation, and when wxid_a has no row
\* the rows of the dropped "gh_news" still separate them (lines 206-211).
RankRuns == <<"wxid_b", "wxid_a", "wxid_b">>

\* The runs at the positions S, in cursor order.
RunsAt(S) ==
    LET In(i) == i \in S
        idx == SelectSeq(<<1, 2, 3>>, In)
    IN [k \in 1..Len(idx) |-> RankRuns[idx[k]]]

\* The sets of runs that have rows in January.
RankSets == {S \in SUBSET {1, 2, 3} : Cardinality(S) <= MaxRankAggs}

\* The rows of "gh_news" that separate the two runs of wxid_b.
SeparatorRows(S) == IF S = {1, 3} THEN 1 ELSE 0

\* What a run leaves in its aggregate: incoming and outgoing messages, the
\* number of active days, the time bucket mask and the gap of its one reply.
RankProfiles ==
    [io : {<<10, 10>>, <<5, 4>>, <<4, 5>>}, days : {2, 5}, mask : {1, 15}, gap : {300, 3000}]

\* The _MonthConvAgg of a run of conversation u with profile p (lines 218-235).
RankAgg(u, p) ==
    [username |-> u, month |-> 1, incoming |-> p.io[1], outgoing |-> p.io[2],
     replies |-> 1, sum_gap |-> p.gap, sum_gap_capped |-> Min(p.gap, gap_cap_seconds),
     active_days |-> 1..p.days, time_bucket_mask |-> p.mask]

RECURSIVE RankRowCount(_)
RankRowCount(heap) ==
    IF heap = <<>> THEN 0
    ELSE RankRowCount(SubSeq(heap, 1, Len(heap) - 1)) + Total(heap[Len(heap)])

\* The state at line 265 after the pass over such an index.
InitRank ==
    /\ LibIdle
    /\ pc = "select"
    /\ cursor_row = NoRow
    /\ consumed = <<>>
    /\ conv_month_aggs = NoAggs
    /\ prev_other_ts = None
    /\ month_winner_raw = <<>>
    /\ months = <<>>
    /\ summary = None
    /\ used_index = TRUE
    /\ index_status = None
    /\ index = UsableIndex
    /\ gate_calls = <<GateCall("open", FALSE, UsableIndex, FALSE)>>
    /\ calls = <<>>
    /\ \E S \in RankSets : \E ps \in [1..Cardinality(S) -> RankProfiles] :
         LET q == RunsAt(S)
             heap == [k \in 1..Len(q) |-> RankAgg(q[k], ps[k])]
         IN /\ aggs = heap
            /\ per_month_aggs = [m \in Months |->
                   IF m = 1 THEN [k \in 1..Len(q) |-> k] ELSE <<>>]
            /\ cur_username = IF q = <<>> THEN "" ELSE q[Len(q)]
            /\ fetched = RankRowCount(heap) + SeparatorRows(S)

\* What a run leaves in its aggregate when the month also holds conversations
\* below the thresholds of lines 271-278: a busy single day, a long one-sided
\* exchange without a reply, a handful of messages.
FrameProfiles ==
    [io : {<<4, 4>>, <<5, 3>>}, days : {2, 3}, replies : {1}, gap : {300}]
      \cup [io : {<<12, 12>>}, days : {1}, replies : {1}, gap : {300}]
      \cup [io : {<<12, 12>>}, days : {6}, replies : {0}, gap : {0}]
      \cup [io : {<<2, 1>>}, days : {2}, replies : {1}, gap : {300}]

\* The _MonthConvAgg of a run of conversation u with profile p (lines 218-235).
FrameAgg(u, p) ==
    [username |-> u, month |-> 1, incoming |-> p.io[1], outgoing |-> p.io[2],
     replies |-> p.replies, sum_gap |-> p.gap, sum_gap_capped |-> Min(p.gap, gap_cap_seconds),
     active_days |-> 1..p.days, time_bucket_mask |-> 1]

\* The state at line 265 after the pass over an index whose January holds
\* conversations above and below the thresholds.
InitFrame ==
    /\ LibIdle
    /\ pc = "select"
    /\ cursor_row = NoRow
    /\ consumed = <<>>
    /\ conv_month_aggs = NoAggs
    /\ prev_other_ts = None
    /\ month_winner_raw = <<>>
    /\ months = <<>>
    /\ summary = None
    /\ used_index = TRUE
    /\ index_status = None
    /\ index = UsableIndex
    /\ gate_calls = <<GateCall("open", FALSE, UsableIndex, FALSE)>>
    /\ calls = <<>>
    /\ \E S \in SUBSET {1, 2, 3} : \E ps \in [1..Cardinality(S) -> FrameProfiles] :
         LET q == RunsAt(S)
             heap == [k \in 1..Len(q) |-> FrameAgg(q[k], ps[k])]
         IN /\ aggs = heap
            /\ per_month_aggs = [m \in Months |->
                   IF m = 1 THEN [k \in 1..Len(q) |-> k] ELSE <<>>]
            /\ cur_username = IF q = <<>> THEN "" ELSE q[Len(q)]
            /\ fetched = RankRowCount(heap) + SeparatorRows(S)

(***************************************************************************)
(* _score_month_agg applied on its own (lines 90-116): one aggregate, the  *)
(* maxima of the eligible set it belongs to, and tau.                      *)
(***************************************************************************)
\* The values of tau_seconds the scorer is applied with; line 101 clamps
\* them from below with max(1.0, tau_seconds).
Taus == {0, 1, 600, 1800, 3600}

\* The aggregates the pass can leave in a pool (total > 0, line 189): a reply
\* needs an incoming and an outgoing message, each capped gap is at most
\* gap_cap_seconds, every message marks one day and one time bucket.
ScoreAggs ==
    {a \in [username : {"wxid_a"}, month : {1},
             incoming : {0, 3, MaxScoreCount}, outgoing : {0, 3, MaxScoreCount},
             replies : 0..2, sum_gap : {0, 300, 600, gap_cap_seconds, 2 * gap_cap_seconds},
             sum_gap_capped : {0, 300, 600, gap_cap_seconds, 2 * gap_cap_seconds},
             active_days : {1..1, 1..2, 1..5}, time_bucket_mask : {1, 3, 15}] :
        /\ Total(a) > 0
        /\ a.replies <= Interaction(a)
        /\ a.sum_gap = a.sum_gap_capped
        /\ a.sum_gap_capped <= a.replies * gap_cap_seconds
        /\ ActiveDaysCount(a) <= Total(a)
        /\ TimeBucketCount(a) <= Total(a)}

\* The keyword arguments of a call of _score_month_agg (lines 285-291): the
\* maxima are those of a set the aggregate belongs to (lines 282-283).
ScoreArgs ==
    {x \in [fn : {"_score_month_agg"}, agg : ScoreAggs,
             month_max_interaction : {0, 3, MaxScoreCount},
             month_max_active_days : {1, 2, 5, 31},
             tau_seconds : Taus] :
        /\ Interaction(x.agg) <= x.month_max_interaction
        /\ ActiveDaysCount(x.agg) <= x.month_max_active_days}

InitScore ==
    /\ EngineIdle
    /\ message_edits = {}
    /\ store_log = <<>>
    /\ sse_pc = "idle"
    /\ sse_events = <<>>
    /\ sse_env = None /\ sse_locals = None
    /\ headers = None
    /\ timing_calls = <<>>
    /\ http = None /\ upsert_calls = None
    /\ ret = None
    /\ arg \in {Some(x) : x \in ScoreArgs}

\* The call of _score_month_agg and its return value.
ScoreMonthAgg ==
    /\ arg /= None /\ arg[1].fn = "_score_month_agg"
    /\ ret = None
    /\ ret' = Some(score_month_agg(arg[1].agg, arg[1].month_max_interaction,
                                  arg[1].month_max_active_days, arg[1].tau_seconds, weights))
    /\ UNCHANGED <<engine_vars, arg, store_vars, sse_vars, timing_vars, web_vars>>

(***************************************************************************)
(* chat_edit_store.py: Python str values are sequences of one-character    *)
(* strings, so that strip(), split() and int() are computed on the         *)
(* characters.                                                             *)
(***************************************************************************)
\* The characters str.strip() removes, of those the model uses.
IsSpace(c) == c = " "

\* str.strip()
RECURSIVE CStrip(_)
CStrip(s) ==
    IF s = <<>> THEN s
    ELSE IF IsSpace(Head(s)) THEN CStrip(Tail(s))
    ELSE IF IsSpace(s[Len(s)]) THEN CStrip(SubSeq(s, 1, Len(s) - 1))
    ELSE s

\* The position of the first c in s, or 0.
RECURSIVE FindChar(_, _, _)
FindChar(s, c, from) ==
    IF from > Len(s) THEN 0
    ELSE IF s[from] = c THEN from ELSE FindChar(s, c, from + 1)

\* str.split(":", 2): at most three parts, cut at the first two colons.
Split2(s) ==
    LET i == FindChar(s, ":", 1)
    IN IF i = 0 THEN <<s>>
       ELSE LET rest == SubSeq(s, i + 1, Len(s))
                j == FindChar(rest, ":", 1)
            IN IF j = 0 THEN <<SubSeq(s, 1, i - 1), rest>>
               ELSE <<SubSeq(s, 1, i - 1), SubSeq(rest, 1, j - 1),
                      SubSeq(rest, j + 1, Len(rest))>>

Digits == <<"0", "1", "2", "3", "4", "5", "6", "7", "8", "9">>

IsDigit(c) == \E d \in 1..10 : Digits[d] = c

DigitVal(c) == (CHOOSE d \in 1..10 : Digits[d] = c) - 1

\* str(n) of an int n >= 0
RECURSIVE IntStr(_)
IntStr(n) ==
    IF n < 10 THEN <<Digits[n + 1]>> ELSE Append(IntStr(n \div 10), Digits[(n % 10) + 1])

RECURSIVE DecimalVal(_)
DecimalVal(ds) ==
    IF ds = <<>> THEN 0
    ELSE 10 * DecimalVal(SubSeq(ds, 1, Len(ds) - 1)) + DigitVal(ds[Len(ds)])

\* int(s) of a str s: white space around, an optional sign, then digits;
\* None stands for the ValueError of anything else.
IntOfStr(s) ==
    LET t == CStrip(s)
        signed == t /= <<>> /\ Head(t) \in {"+", "-"}
        ds == IF signed THEN Tail(t) ELSE t
    IN IF ds = <<>> \/ \E i \in 1..Len(ds) : ~IsDigit(ds[i]) THEN None
       ELSE IF signed /\ Head(t) = "-" THEN Some(0 - DecimalVal(ds))
       ELSE Some(DecimalVal(ds))

\* format_message_id (lines 82-83)
format_message_id(db, table_name, local_id) ==
    CStrip(db) \o <<":">> \o CStrip(table_name) \o <<":">> \o IntStr(local_id)

\* What a call returned or raised.
Returned(v) == [raised |-> "", value |-> v]
Raised(e) == [raised |-> e, value |-> None]

\* Mutant: a local_id that is not positive is accepted.
parse_message_id_AnyInt(message_id) ==
    LET parts == Split2(message_id)
    IN IF Len(parts) /= 3 THEN Raised("ValueError")
       ELSE LET db == CStrip(parts[1])
                table_name == CStrip(parts[2])
                local_id == IF parts[3] = <<>> THEN Some(0) ELSE IntOfStr(parts[3])
            IN IF local_id = None THEN Raised("ValueError")
               ELSE IF db = <<>> \/ table_name = <<>>
                    THEN Raised("ValueError")
               ELSE Returned(<<db, table_name, local_id[1]>>)

\* parse_message_id (lines 86-98)
parse_message_id(message_id) ==
    LET parts == Split2(message_id)
    IN IF Len(parts) /= 3 THEN Raised("ValueError")
       ELSE LET db == CStrip(parts[1])
                table_name == CStrip(parts[2])
                local_id == IF parts[3] = <<>> THEN Some(0) ELSE IntOfStr(parts[3])
            IN IF local_id = None THEN Raised("ValueError")
               ELSE IF db = <<>> \/ table_name = <<>> \/ local_id[1] <= 0
                    THEN Raised("ValueError")
               ELSE Returned(<<db, table_name, local_id[1]>>)

\* The str values of at most n characters of the alphabet A.
StrsUpTo(A, n) == UNION {[1..k -> A] : k \in 0..n}

\* The calls of the message id functions: format_message_id on a db and a
\* table name with a local_id, parse_message_id on a str.
MessageIdArgs ==
    [fn : {"format_message_id"}, db : StrsUpTo({"m", ":", " "}, MaxNameLen),
     table_name : StrsUpTo({"t", ":", " "}, MaxNameLen), local_id : {0, 1, MaxLocalId}]
    \cup [fn : {"parse_message_id"},
          message_id : StrsUpTo({"m", ":", "1", "0", "+", " "}, MaxIdLen)]

\* No function is applied and no other part of the package is in use.
FnIdle ==
    /\ EngineIdle
    /\ message_edits = {}
    /\ store_log = <<>>
    /\ sse_pc = "idle"
    /\ sse_events = <<>>
    /\ sse_env = None /\ sse_locals = None
    /\ headers = None
    /\ timing_calls = <<>>
    /\ http = None /\ upsert_calls = None
    /\ ret = None

InitMessageId ==
    /\ FnIdle
    /\ arg \in {Some(x) : x \in MessageIdArgs}

FnUnchanged == UNCHANGED <<engine_vars, store_vars, sse_vars, timing_vars, web_vars>>

\* The call of format_message_id.
FormatMessageId ==
    /\ arg /= None /\ arg[1].fn = "format_message_id"
    /\ ret = None
    /\ ret' = Some(Returned(format_message_id(arg[1].db, arg[1].table_name, arg[1].local_id)))
    /\ UNCHANGED arg
    /\ FnUnchanged

\* The call of parse_message_id on a str.
ParseMessageId ==
    /\ arg /= None /\ arg[1].fn = "parse_message_id"
    /\ ret = None
    /\ ret' = Some(parse_message_id(arg[1].message_id))
    /\ UNCHANGED arg
    /\ FnUnchanged

\* The call of parse_message_id on what format_message_id returned; the
\* arguments of that call are kept to compare with.
ParseFormatted ==
    /\ arg /= None /\ arg[1].fn = "format_message_id"
    /\ ret /= None
    /\ arg' = Some([fn |-> "parse_message_id", message_id |-> ret[1].value,
                    formatted |-> arg[1]])
    /\ ret' = Some(parse_message_id(ret[1].value))
    /\ FnUnchanged

(***************************************************************************)
(* The JSON snapshots of chat_edit_store.py (lines 101-148).  A Python     *)
(* value is a record with its type t and its content v: None, str (a       *)
(* sequence of characters), int, bytes and memoryview (a sequence of byte  *)
(* values), dict (a function on str keys) and list.  A JSON document is the *)
(* tree json.dumps writes and json.loads reads: null, string, number,      *)
(* object, array.                                                          *)
(***************************************************************************)
PyNone == [t |-> "None", v |-> <<>>]
PyStr(cs) == [t |-> "str", v |-> cs]
PyInt(n) == [t |-> "int", v |-> n]
PyBytes(bs) == [t |-> "bytes", v |-> bs]
PyMemoryview(bs) == [t |-> "memoryview", v |-> bs]
PyDict(f) == [t |-> "dict", v |-> f]
PyList(q) == [t |-> "list", v |-> q]

HexChars == <<"0", "1", "2", "3", "4", "5", "6", "7", "8", "9", "a", "b", "c", "d", "e", "f">>
UpperHexChars == <<"0", "1", "2", "3", "4", "5", "6", "7", "8", "9", "A", "B", "C", "D", "E", "F">>

\* _HEX_RE: [0-9a-fA-F]
IsHexChar(c) == \E d \in 1..16 : HexChars[d] = c \/ UpperHexChars[d] = c

HexVal(c) == (CHOOSE d \in 1..16 : HexChars[d] = c \/ UpperHexChars[d] = c) - 1

\* bytes.hex()
RECURSIVE BytesHex(_)
BytesHex(bs) ==
    IF bs = <<>> THEN <<>>
    ELSE <<HexChars[(Head(bs) \div 16) + 1], HexChars[(Head(bs) % 16) + 1]>> \o BytesHex(Tail(bs))

\* bytes.fromhex() of an even number of hex characters
RECURSIVE BytesFromHex(_)
BytesFromHex(cs) ==
    IF cs = <<>> THEN <<>>
    ELSE <<16 * HexVal(cs[1]) + HexVal(cs[2])>> \o BytesFromHex(SubSeq(cs, 3, Len(cs)))

\* _bytes_to_hex (lines 101-102)
bytes_to_hex(value) == <<"0", "x">> \o BytesHex(value)

\* _hex_to_bytes (lines 105-115): Optional bytes
hex_to_bytes(value) ==
    LET str == CStrip(value)
    IN IF ~(Len(str) >= 2 /\ str[1] = "0" /\ str[2] = "x") THEN None
       ELSE LET hex_part == SubSeq(str, 3, Len(str))
            IN IF hex_part = <<>> \/ Len(hex_part) % 2 /= 0
                  \/ \E i \in 1..Len(hex_part) : ~IsHexChar(hex_part[i])
               THEN None
               ELSE Some(BytesFromHex(hex_part))

\* _jsonify_blobs (lines 118-127)
RECURSIVE jsonify_blobs(_)
jsonify_blobs(obj) ==
    CASE obj.t = "None" -> PyNone
      [] obj.t \in {"bytes", "bytearray", "memoryview"} -> PyStr(bytes_to_hex(obj.v))
      [] obj.t = "dict" -> PyDict([k \in DOMAIN obj.v |-> jsonify_blobs(obj.v[k])])
      [] obj.t \in {"list", "tuple"} -> PyList([i \in 1..Len(obj.v) |-> jsonify_blobs(obj.v[i])])
      [] OTHER -> obj

\* _dejsonify_blobs (lines 130-140)
RECURSIVE dejsonify_blobs(_)
dejsonify_blobs(obj) ==
    CASE obj.t = "None" -> PyNone
      [] obj.t = "str" -> LET b == hex_to_bytes(obj.v)
                          IN IF b /= None THEN PyBytes(b[1]) ELSE obj
      [] obj.t = "dict" -> PyDict([k \in DOMAIN obj.v |-> dejsonify_blobs(obj.v[k])])
      [] obj.t = "list" -> PyList([i \in 1..Len(obj.v) |-> dejsonify_blobs(obj.v[i])])
      [] OTHER -> obj

\* json.dumps of a value without blobs: the JSON document
RECURSIVE json_dumps(_)
json_dumps(obj) ==
    CASE obj.t = "None" -> [j |-> "null", v |-> <<>>]
      [] obj.t = "str" -> [j |-> "string", v |-> obj.v]
      [] obj.t = "int" -> [j |-> "number", v |-> obj.v]
      [] obj.t = "dict" -> [j |-> "object", v |-> [k \in DOMAIN obj.v |-> json_dumps(obj.v[k])]]
      [] obj.t = "list" -> [j |-> "array", v |-> [i \in 1..Len(obj.v) |-> json_dumps(obj.v[i])]]

\* json.loads of a JSON document
RECURSIVE json_loads(_)
json_loads(doc) ==
    CASE doc.j = "null" -> PyNone
      [] doc.j = "string" -> PyStr(doc.v)
      [] doc.j = "number" -> PyInt(doc.v)
      [] doc.j = "object" -> PyDict([k \in DOMAIN doc.v |-> json_loads(doc.v[k])])
      [] doc.j = "array" -> PyList([i \in 1..Len(doc.v) |-> json_loads(doc.v[i])])

\* dumps_json_with_blobs (lines 143-144)
dumps_json_with_blobs(obj) == json_dumps(jsonify_blobs(obj))

\* loads_json_with_blobs (lines 147-148)
loads_json_with_blobs(payload) == dejsonify_blobs(json_loads(payload))

\* The values at the leaves of a payload: None, a number, a text, a blob as
\* bytes or as a memoryview.
BlobLeaves ==
    {PyNone, PyInt(7)}
    \cup {PyStr(cs) : cs \in StrsUpTo({"0", "x", "f", "g", " "}, MaxTextLen)}
    \cup {PyBytes(bs) : bs \in StrsUpTo({0, 255}, MaxBlobLen)}
    \cup {PyMemoryview(bs) : bs \in StrsUpTo({1, 2}, MaxBlobLen)}

\* The payloads: a leaf, a leaf in a dict, in a list, or in a dict nested in a
\* dict beside a blob.
BlobPayloads ==
    BlobLeaves
    \cup {PyDict([k \in {<<"a">>} |-> x]) : x \in BlobLeaves}
    \cup {PyList(<<x>>) : x \in BlobLeaves}
    \cup {PyDict([k \in {<<"a">>, <<"n">>} |->
                    IF k = <<"a">> THEN PyBytes(<<0, 255>>)
                    ELSE PyDict([b \in {<<"b">>} |-> x])]) : x \in BlobLeaves}

InitBlob ==
    /\ FnIdle
    /\ arg \in {Some([fn |-> "dumps_json_with_blobs", obj |-> p]) : p \in BlobPayloads}

\* The call of dumps_json_with_blobs.
DumpsJsonWithBlobs ==
    /\ arg /= None /\ arg[1].fn = "dumps_json_with_blobs"
    /\ ret = None
    /\ ret' = Some(Returned(dumps_json_with_blobs(arg[1].obj)))
    /\ UNCHANGED arg
    /\ FnUnchanged

\* The call of loads_json_with_blobs on what dumps_json_with_blobs returned;
\* the payload of that call is kept to compare with.
LoadsDumped ==
    /\ arg /= None /\ arg[1].fn = "dumps_json_with_blobs"
    /\ ret /= None
    /\ arg' = Some([fn |-> "loads_json_with_blobs", payload |-> ret[1].value,
                    dumped |-> arg[1].obj])
    /\ ret' = Some(Returned(loads_json_with_blobs(ret[1].value)))
    /\ FnUnchanged

(***************************************************************************)
(* The message edit store of chat_edit_store.py: the table message_edits   *)
(* (lines 40-57) as the set of its rows, with the primary key (account,    *)
(* session_id, db, table_name, local_id).  Every function opens its own    *)
(* connection, runs its statements and commits before it returns; a call   *)
(* made when no other call is in progress is one step.                     *)
(***************************************************************************)
KeyOf(r) == <<r.account, r.session_id, r.db, r.table_name, r.local_id>>

\* SELECT ... WHERE account = ? AND session_id = ? AND db = ? AND
\* table_name = ? AND local_id = ?
RowsAt(store, k) == {r \in store : KeyOf(r) = k}

\* the keys as the functions normalise them: str(x or "").strip(),
\* int(local_id or 0)
NormKey(account, session_id, db, table_name, local_id) ==
    <<CStrip(account), CStrip(session_id), CStrip(db), CStrip(table_name), local_id>>

\* not a or not sid or not db_norm or not t or lid <= 0
KeyMissing(k) == k[1] = <<>> \/ k[2] = <<>> \/ k[3] = <<>> \/ k[4] = <<>> \/ k[5] <= 0

\* the truth value of a Python value (x or {})
PyFalsy(obj) ==
    CASE obj.t = "None" -> TRUE
      [] obj.t = "int" -> obj.v = 0
      [] obj.t = "dict" -> DOMAIN obj.v = {}
      [] OTHER -> obj.v = <<>>

\* ts = int(now_ms if now_ms is not None else _now_ms()), clock being the
\* value _now_ms() returns
CallTs(c, clock) == IF c.now_ms /= None THEN c.now_ms[1] ELSE clock

\* msg_json = dumps_json_with_blobs(original_msg or {})
MsgJson(c) ==
    dumps_json_with_blobs(IF PyFalsy(c.original_msg) THEN PyDict(<<>>) ELSE c.original_msg)

\* res_json = dumps_json_with_blobs(original_resource) if original_resource is
\* not None else None
ResJson(c) ==
    IF c.original_resource.t = "None" THEN None
    ELSE Some(dumps_json_with_blobs(c.original_resource))

\* Mutant: a later call overwrites the snapshot.
upsert_original_once_Overwrite(store, c, clock) ==
    LET k == NormKey(c.account, c.session_id, c.db, c.table_name, c.local_id)
        ts == CallTs(c, clock)
        existing == RowsAt(store, k)
    IN IF KeyMissing(k) THEN [store |-> store, ret |-> Raised("ValueError")]
       ELSE IF existing = {}
       THEN [store |-> store \cup
                 {[account |-> k[1], session_id |-> k[2], db |-> k[3], table_name |-> k[4],
                   local_id |-> k[5], first_edited_at |-> ts, last_edited_at |-> ts,
                   edit_count |-> 1, original_msg_json |-> MsgJson(c),
                   original_resource_json |-> ResJson(c), edited_cols_json |-> None]},
             ret |-> Returned(None)]
       ELSE [store |-> (store \ existing) \cup
                 {[r EXCEPT !.last_edited_at = ts, !.edit_count = r.edit_count + 1,
                            !.original_msg_json = MsgJson(c),
                            !.original_resource_json = ResJson(c)] : r \in existing},
             ret |-> Returned(None)]

\* upsert_original_once (lines 151-213): the store afterwards and what the
\* call returned or raised
upsert_original_once(store, c, clock) ==
    LET k == NormKey(c.account, c.session_id, c.db, c.table_name, c.local_id)
        ts == CallTs(c, clock)
        existing == RowsAt(store, k)
    IN IF KeyMissing(k) THEN [store |-> store, ret |-> Raised("ValueError")]
       ELSE IF existing = {}
       THEN [store |-> store \cup
                 {[account |-> k[1], session_id |-> k[2], db |-> k[3], table_name |-> k[4],
                   local_id |-> k[5], first_edited_at |-> ts, last_edited_at |-> ts,
                   edit_count |-> 1, original_msg_json |-> MsgJson(c),
                   original_resource_json |-> ResJson(c), edited_cols_json |-> None]},
             ret |-> Returned(None)]
       ELSE [store |-> (store \ existing) \cup
                 {[r EXCEPT !.last_edited_at = ts, !.edit_count = r.edit_count + 1]
                    : r \in existing},
             ret |-> Returned(None)]

\* Mutant: equal local ids are not answered before the table is read.
update_message_edit_local_id_NoShortcut(store, c) ==
    LET old == NormKey(c.account, c.session_id, c.db, c.table_name, c.old_local_id)
        new == NormKey(c.account, c.session_id, c.db, c.table_name, c.new_local_id)
        hit == RowsAt(store, old)
    IN IF KeyMissing(old) \/ KeyMissing(new) THEN [store |-> store, ret |-> Returned(FALSE)]
       ELSE IF hit /= {} /\ old /= new /\ RowsAt(store, new) /= {}
       THEN [store |-> store, ret |-> Returned(FALSE)]
       ELSE [store |-> (store \ hit) \cup {[r EXCEPT !.local_id = new[5]] : r \in hit},
             ret |-> Returned(hit /= {})]

\* update_message_edit_local_id (lines 446-487): the UPDATE of a row onto the
\* primary key of another row raises sqlite3.IntegrityError, which line 481
\* answers with False; nothing was committed
update_message_edit_local_id(store, c) ==
    LET old == NormKey(c.account, c.session_id, c.db, c.table_name, c.old_local_id)
        new == NormKey(c.account, c.session_id, c.db, c.table_name, c.new_local_id)
        hit == RowsAt(store, old)
    IN IF KeyMissing(old) \/ KeyMissing(new) THEN [store |-> store, ret |-> Returned(FALSE)]
       ELSE IF old[5] = new[5] THEN [store |-> store, ret |-> Returned(TRUE)]
       ELSE IF hit /= {} /\ RowsAt(store, new) /= {}
       THEN [store |-> store, ret |-> Returned(FALSE)]
       ELSE [store |-> (store \ hit) \cup {[r EXCEPT !.local_id = new[5]] : r \in hit},
             ret |-> Returned(hit /= {})]

\* get_message_edit (lines 381-413): Optional, the row and its message_id
get_message_edit(store, account, session_id, message_id) ==
    LET a == CStrip(account)
        sid == CStrip(session_id)
        parsed == parse_message_id(message_id)
    IN IF a = <<>> \/ sid = <<>> \/ message_id = <<>> THEN None
       ELSE IF parsed.raised /= "" THEN None
       ELSE LET v == parsed.value
                rows == RowsAt(store, <<a, sid, v[1], v[2], v[3]>>)
            IN IF rows = {} THEN None
               ELSE Some([row |-> CHOOSE r \in rows : TRUE,
                          message_id |-> format_message_id(v[1], v[2], v[3])])

\* The snapshots handed to the store: a message with a text, a message with a
\* blob, and no message; a resource with a blob, and none.
MsgHello == PyDict([k \in {<<"c">>} |-> PyStr(<<"f">>)])
MsgOther == PyDict([k \in {<<"c">>} |-> PyBytes(<<255>>)])
ResPacked == PyDict([k \in {<<"p">>} |-> PyBytes(<<0>>)])

UpsertCall(account, local_id, msg, res, now_ms) ==
    [fn |-> "upsert_original_once", account |-> account, session_id |-> <<"s">>,
     db |-> <<"m">>, table_name |-> <<"t">>, local_id |-> local_id,
     original_msg |-> msg, original_resource |-> res, now_ms |-> now_ms]

\* The drawn calls of upsert_original_once: the key (a, s, m, t, 1) written
\* with and without surrounding blanks, a second key, a local_id and an
\* account the function refuses, with and without now_ms.
UpsertCalls ==
    {UpsertCall(<<"a">>, 1, MsgHello, ResPacked, Some(1000)),
     UpsertCall(<<" ", "a">>, 1, MsgOther, PyNone, Some(2000)),
     UpsertCall(<<"a">>, 1, MsgOther, ResPacked, None),
     UpsertCall(<<"a">>, 1, PyNone, PyNone, Some(1000)),
     UpsertCall(<<"a">>, 2, MsgOther, PyNone, Some(2000)),
     UpsertCall(<<"a">>, 0, MsgHello, PyNone, Some(1000)),
     UpsertCall(<<" ">>, 1, MsgHello, PyNone, Some(1000))}

\* the values _now_ms() returns
Clocks == {1500}

\* The drawn calls of update_message_edit_local_id.
UpdateCalls ==
    [fn : {"update_message_edit_local_id"}, account : {<<"a">>}, session_id : {<<"s", " ">>},
     db : {<<"m">>}, table_name : {<<"t">>}, old_local_id : 0..2, new_local_id : 0..2]
    \cup [fn : {"update_message_edit_local_id"}, account : {<<" ">>}, session_id : {<<"s">>},
          db : {<<"m">>}, table_name : {<<"t">>}, old_local_id : {1}, new_local_id : {2}]

StoreUnchanged == UNCHANGED <<engine_vars, fn_vars, sse_vars, timing_vars, web_vars>>

InitStore == EngineIdle /\ LibIdle

\* A call of upsert_original_once; store_log keeps the call, its timestamp,
\* the table before it and what it returned or raised.
UpsertOriginalOnce ==
    \E c \in UpsertCalls, clock \in Clocks :
        LET res == upsert_original_once(message_edits, c, clock)
        IN /\ Len(store_log) < MaxStoreCalls
           /\ message_edits' = res.store
           /\ store_log' = Append(store_log, [call |-> c, ts |-> CallTs(c, clock),
                                               before |-> message_edits, ret |-> res.ret])
           /\ StoreUnchanged

\* A call of update_message_edit_local_id.
UpdateMessageEditLocalId ==
    \E c \in UpdateCalls :
        LET res == update_message_edit_local_id(message_edits, c)
        IN /\ Len(store_log) < MaxStoreCalls
           /\ message_edits' = res.store
           /\ store_log' = Append(store_log, [call |-> c, ts |-> 0,
                                               before |-> message_edits, ret |-> res.ret])
           /\ StoreUnchanged

(***************************************************************************)
(* Two overlapping calls of upsert_original_once, statement by statement.  *)
(* Each call has its own connection (line 178).  The SELECT of lines       *)
(* 179-188 reads the committed table.  The INSERT or UPDATE of lines       *)
(* 189-208 opens the call's write transaction: while the other call holds  *)
(* an uncommitted write it waits, and after the timeout of 5 s (line 21)   *)
(* sqlite3 raises OperationalError; an INSERT of a key the table holds     *)
(* violates the PRIMARY KEY of lines 40-57 and raises IntegrityError.      *)
(* Neither exception is caught: the finally clause of lines 209-214 closes *)
(* the connection, which rolls the transaction back, and the exception     *)
(* leaves the function.  conn.commit() of line 208 publishes the write.    *)
(***************************************************************************)
\* The calls made at overlapping times: calls with complete keys.
RaceCalls ==
    {c \in UpsertCalls :
        ~KeyMissing(NormKey(c.account, c.session_id, c.db, c.table_name, c.local_id))}

\* The table before the calls: empty, or holding the record of an earlier call.
RaceStores ==
    {{}, upsert_original_once({}, UpsertCall(<<"a">>, 1, MsgHello, PyNone, Some(500)), 500).store}

\* the frame of a call before its first statement
RaceFrame(c) == [call |-> c, pc |-> "select", existing |-> FALSE, raised |-> ""]

\* the key of the call of caller i
RaceKey(i) ==
    LET c == upsert_calls[1].frames[i].call
    IN NormKey(c.account, c.session_id, c.db, c.table_name, c.local_id)

InitRace ==
    /\ EngineIdle
    /\ arg = None /\ ret = None
    /\ store_log = <<>>
    /\ sse_pc = "idle" /\ sse_events = <<>> /\ sse_env = None /\ sse_locals = None
    /\ headers = None /\ timing_calls = <<>>
    /\ http = None
    /\ message_edits \in RaceStores
    /\ upsert_calls \in {Some([frames |-> <<RaceFrame(c1), RaceFrame(c2)>>, writer |-> 0,
                                committed |-> <<>>]) : c1 \in RaceCalls, c2 \in RaceCalls}

RaceUnchanged == UNCHANGED <<engine_vars, fn_vars, store_log, sse_vars, timing_vars, http>>

\* Lines 178-188: a call connects and makes its existence check.
SelectExisting ==
    /\ upsert_calls /= None
    /\ \E i \in 1..2 :
         /\ upsert_calls[1].frames[i].pc = "select"
         /\ upsert_calls' = Some([upsert_calls[1] EXCEPT
                !.frames[i].existing = RowsAt(message_edits, RaceKey(i)) /= {},
                !.frames[i].pc = "write"])
    /\ UNCHANGED message_edits
    /\ RaceUnchanged

\* Lines 189-207: the INSERT (existing is None) or the UPDATE.  The other
\* call holding an uncommitted write, the statement waits (the step is
\* taken later) or times out; an INSERT of a stored key raises.
InsertOrUpdate ==
    /\ upsert_calls /= None
    /\ \E i \in 1..2 :
         /\ upsert_calls[1].frames[i].pc = "write"
         /\ IF upsert_calls[1].writer /= 0
            THEN upsert_calls' = Some([upsert_calls[1] EXCEPT
                     !.frames[i].raised = "OperationalError", !.frames[i].pc = "done"])
            ELSE IF ~upsert_calls[1].frames[i].existing
                    /\ RowsAt(message_edits, RaceKey(i)) /= {}
            THEN upsert_calls' = Some([upsert_calls[1] EXCEPT
                     !.frames[i].raised = "IntegrityError", !.frames[i].pc = "done"])
            ELSE upsert_calls' = Some([upsert_calls[1] EXCEPT
                     !.writer = i, !.frames[i].pc = "commit"])
    /\ UNCHANGED message_edits
    /\ RaceUnchanged

\* Lines 208-214: conn.commit() publishes the row inserted or updated, the
\* connection is closed and the call returns.
CommitAndClose ==
    /\ upsert_calls /= None
    /\ \E i \in 1..2 : \E clock \in Clocks :
         /\ upsert_calls[1].frames[i].pc = "commit"
         /\ message_edits' =
              upsert_original_once(message_edits, upsert_calls[1].frames[i].call, clock).store
         /\ upsert_calls' = Some([upsert_calls[1] EXCEPT
                !.writer = 0, !.frames[i].pc = "done",
                !.committed = Append(@, i)])
    /\ RaceUnchanged

(***************************************************************************)
(* add_sns_stage_timing_headers of sns_stage_timing.py.  headers is the    *)
(* mapping handed to the function, from header names to values; a value is *)
(* a sequence of characters, so that the token, the escaping and the       *)
(* regular expression of line 58 are computed on characters.               *)
(***************************************************************************)
SnsSource == <<"s", "n", "s", "_", "s", "o", "u", "r", "c", "e">>
SnsHit == <<"s", "n", "s", "_", "h", "i", "t", "_">>
SnsXenc == <<"s", "n", "s", "_", "x", "e", "n", "c", "_">>
DurDesc == <<";", "d", "u", "r", "=", "0", ";", "d", "e", "s", "c", "=", "\"">>
Unknown == <<"u", "n", "k", "n", "o", "w", "n">>
EdgeMetric == <<"e", "d", "g", "e", ";", "d", "u", "r", "=", "1">>

\* [0-9A-Za-z_.-]
TokenChars ==
    {"0", "1", "2", "3", "4", "5", "6", "7", "8", "9", "_", ".", "-",
     "a", "b", "c", "d", "e", "f", "g", "h", "i", "j", "k", "l", "m",
     "n", "o", "p", "q", "r", "s", "t", "u", "v", "w", "x", "y", "z",
     "A", "B", "C", "D", "E", "F", "G", "H", "I", "J", "K", "L", "M",
     "N", "O", "P", "Q", "R", "S", "T", "U", "V", "W", "X", "Y", "Z"}

\* _esc (lines 29-30)
RECURSIVE Esc(_)
Esc(v) ==
    IF v = <<>> THEN <<>>
    ELSE (IF Head(v) = "\\" THEN <<"\\", "\\">>
          ELSE IF Head(v) = "\"" THEN <<"\\", "\"">>
          ELSE <<Head(v)>>) \o Esc(Tail(v))

\* raw.replace(" ", "_")
BlanksToUnderscores(v) == [i \in 1..Len(v) |-> IF v[i] = " " THEN "_" ELSE v[i]]

\* re.sub(r"[^0-9A-Za-z_.-]+", "_", raw): every run of other characters
\* becomes one underscore
RECURSIVE SubRuns(_, _)
SubRuns(v, in_run) ==
    IF v = <<>> THEN <<>>
    ELSE IF Head(v) \in TokenChars THEN <<Head(v)>> \o SubRuns(Tail(v), FALSE)
    ELSE (IF in_run THEN <<>> ELSE <<"_">>) \o SubRuns(Tail(v), TRUE)

\* .strip("_")
RECURSIVE StripUnderscores(_)
StripUnderscores(v) ==
    IF v = <<>> THEN <<>>
    ELSE IF Head(v) = "_" THEN StripUnderscores(Tail(v))
    ELSE IF v[Len(v)] = "_" THEN StripUnderscores(SubSeq(v, 1, Len(v) - 1))
    ELSE v

\* _token (lines 32-40)
Token(v) ==
    LET raw == CStrip(v)
        safe == StripUnderscores(SubRuns(BlanksToUnderscores(raw), FALSE))
    IN IF raw = <<>> THEN <<>>
       ELSE SubSeq(safe, 1, IF Len(safe) < 64 THEN Len(safe) ELSE 64)

\* sns_source at position i of s followed by _ or ;
SourceAt(s, i) ==
    /\ i + Len(SnsSource) <= Len(s)
    /\ SubSeq(s, i, i + Len(SnsSource) - 1) = SnsSource
    /\ s[i + Len(SnsSource)] \in {"_", ";"}

\* re.search(r"(^|,\\s*)sns_source(_|;)", existing) (line 58): in the raw
\* string the pattern's second alternative is a comma, a backslash and any
\* number of letters s
SourceSearch(existing) ==
    \/ SourceAt(existing, 1)
    \/ \E i \in 1..Len(existing) : \E k \in 0..Len(existing) :
         /\ i + 1 + k <= Len(existing)
         /\ existing[i] = ","
         /\ existing[i + 1] = "\\"
         /\ \A j \in 1..k : existing[i + 1 + j] = "s"
         /\ SourceAt(existing, i + 2 + k)

\* one metric: name, dur=0 and the escaped description
Metric(name, tok, desc) == name \o tok \o DurDesc \o Esc(desc) \o <<"\"">>

\* ", ".join(parts)
RECURSIVE JoinParts(_)
JoinParts(parts) ==
    IF parts = <<>> THEN <<>>
    ELSE IF Len(parts) = 1 THEN parts[1]
    ELSE parts[1] \o <<",", " ">> \o JoinParts(Tail(parts))

\* headers[name] = value
SetHeader(h, name, value) ==
    [k \in DOMAIN h \cup {name} |-> IF k = name THEN value ELSE h[k]]

\* add_sns_stage_timing_headers (lines 5-62): the mapping afterwards
add_sns_stage_timing_headers(h, c) ==
    LET src == CStrip(c.source)
        ht == CStrip(c.hit_type)
        xe == CStrip(c.x_enc)
        h1 == IF "Timing-Allow-Origin" \in DOMAIN h THEN h
              ELSE SetHeader(h, "Timing-Allow-Origin", <<"*">>)
        src_tok == IF Token(src) /= <<>> THEN Token(src) ELSE Unknown
        parts == <<Metric(SnsSource \o <<"_">>, src_tok, src)>>
                 \o (IF ht /= <<>> /\ Token(ht) /= <<>>
                     THEN <<Metric(SnsHit, Token(ht), ht)>> ELSE <<>>)
                 \o (IF xe /= <<>> /\ Token(xe) /= <<>>
                     THEN <<Metric(SnsXenc, Token(xe), xe)>> ELSE <<>>)
        existing == CStrip(IF "Server-Timing" \in DOMAIN h THEN h["Server-Timing"] ELSE <<>>)
        combined == JoinParts(parts)
    IN IF src = <<>> THEN h
       ELSE IF existing /= <<>> /\ SourceSearch(existing) THEN h1
       ELSE SetHeader(h1, "Server-Timing",
                      IF existing /= <<>> THEN existing \o <<",", " ">> \o combined
                      ELSE combined)

\* The headers a response carries before the first call: none, an upstream
\* metric, an sns_source_ metric at the start of Server-Timing, a blank
\* Server-Timing, a Timing-Allow-Origin of its own.
InitialHeaders ==
    {<<>>,
     [k \in {"Server-Timing"} |-> EdgeMetric],
     [k \in {"Server-Timing"} |-> SnsSource \o <<"_", "p", ";", "d", "u", "r", "=", "0">>],
     [k \in {"Server-Timing"} |-> <<" ">>],
     [k \in {"Server-Timing", "Timing-Allow-Origin"} |->
         IF k = "Server-Timing" THEN EdgeMetric ELSE <<"x">>]}

\* The drawn calls: a source that is a token, none, one with a blank inside,
\* one whose token is empty; with and without hit_type and x_enc.
TimingCalls ==
    [source : {<<"p">>, <<>>, <<"a", " ", "b">>, <<"\"">>},
     hit_type : {<<>>, <<"h">>},
     x_enc : {<<>>, <<"!">>}]

InitTiming ==
    /\ EngineIdle
    /\ arg = None /\ ret = None
    /\ message_edits = {} /\ store_log = <<>>
    /\ sse_pc = "idle" /\ sse_events = <<>> /\ sse_env = None /\ sse_locals = None
    /\ headers \in InitialHeaders
    /\ timing_calls = <<>>
    /\ http = None /\ upsert_calls = None

\* A call of add_sns_stage_timing_headers on the mapping; timing_calls keeps
\* the call and the mapping before it.
AddSnsStageTimingHeaders ==
    \E c \in TimingCalls :
        /\ Len(timing_calls) < MaxApply
        /\ headers' = add_sns_stage_timing_headers(headers, c)
        /\ timing_calls' = Append(timing_calls, [call |-> c, before |-> headers])
        /\ UNCHANGED <<engine_vars, fn_vars, store_vars, sse_vars, web_vars>>

(***************************************************************************)
(* generate_progress of decrypt_databases_stream (routers/decrypt.py,      *)
(* lines 101-348).  The generator runs from one yield or await to the      *)
(* next; between two of its steps the client may disconnect and the        *)
(* decryption thread may finish.  sse_env is the request and its world,    *)
(* sse_locals the generator's variables, sse_events what it has yielded.   *)
(* WeChatDatabaseDecryptor, decrypt_database and                           *)
(* build_session_last_message_table are not in src/: the constructor       *)
(* accepts the key or raises ValueError, a task returns true, returns      *)
(* false or raises.                                                        *)
(***************************************************************************)
\* the requests and their worlds: the key and the path as the validation of
\* lines 103-124 sees them, the number of .db files the walk of lines 151-161
\* finds, WECHAT_TOOL_BUILD_SESSION_LAST_MESSAGE /= "0", whether
\* WeChatDatabaseDecryptor accepts the key
SseRequests ==
    [key : {"ok", "short", "nonhex"}, path : {"ok", "empty", "missing"},
     databases : 0..MaxDatabases, build_cache : BOOLEAN, decryptor_ok : BOOLEAN,
     connected : {TRUE}, task : {"none"}]

\* the locals before the first step (lines 186-191)
SseLocals0 ==
    [overall_current |-> 0, success_count |-> 0, fail_count |-> 0,
     tasks_started |-> 0, key_stored |-> FALSE, observed_disconnect |-> FALSE, pings |-> 0]

\* _sse payloads
ErrorEvent == [type |-> "error"]
ScanningEvent == [type |-> "scanning"]
StartEvent(total) == [type |-> "start", total |-> total]
PhaseEvent == [type |-> "phase", phase |-> "session_last_message"]
PingComment == [type |-> ": ping"]

ProgressEvent(loc, total, status) ==
    [type |-> "progress", current |-> loc.overall_current, total |-> total,
     success_count |-> loc.success_count, fail_count |-> loc.fail_count, status |-> status]

\* lines 331-336 and 348
CompleteEvent(loc, total) ==
    [type |-> "complete",
     status |-> IF loc.success_count > 0 THEN "completed" ELSE "failed",
     total_databases |-> total, success_count |-> loc.success_count,
     failure_count |-> total - loc.success_count]

InitStream ==
    /\ EngineIdle
    /\ arg = None /\ ret = None
    /\ message_edits = {} /\ store_log = <<>>
    /\ headers = None /\ timing_calls = <<>>
    /\ http = None /\ upsert_calls = None
    /\ sse_pc = "validate"
    /\ sse_events = <<>>
    /\ sse_env \in {Some(r) : r \in SseRequests}
    /\ sse_locals = Some(SseLocals0)

StreamUnchanged == UNCHANGED <<engine_vars, fn_vars, store_vars, timing_vars, web_vars>>

\* yield payload and go on at position next
Yield(payload, next) ==
    /\ sse_events' = Append(sse_events, payload)
    /\ sse_pc' = next

\* Lines 103-127: the validation; an error event and return, or scanning.
ValidateRequest ==
    /\ sse_pc = "validate"
    /\ IF sse_env[1].key /= "ok" \/ sse_env[1].path /= "ok"
       THEN Yield(ErrorEvent, "done")
       ELSE Yield(ScanningEvent, "scan")
    /\ UNCHANGED <<sse_env, sse_locals>>
    /\ StreamUnchanged

\* Mutant: the start event is not sent.
ScanDatabases_NoStart ==
    /\ sse_pc = "scan"
    /\ IF sse_env[1].databases = 0
       THEN Yield(ErrorEvent, "done")
       ELSE sse_pc' = "decryptor" /\ UNCHANGED sse_events
    /\ UNCHANGED <<sse_env, sse_locals>>
    /\ StreamUnchanged

\* Lines 130-171: the scan; an error event and return when no database is
\* found, or start.
ScanDatabases ==
    /\ sse_pc = "scan"
    /\ IF sse_env[1].databases = 0
       THEN Yield(ErrorEvent, "done")
       ELSE Yield(StartEvent(sse_env[1].databases), "decryptor")
    /\ UNCHANGED <<sse_env, sse_locals>>
    /\ StreamUnchanged

\* Lines 174-182: the decryptor; an error event and return when the
\* constructor raises ValueError.
InitDecryptor ==
    /\ sse_pc = "decryptor"
    /\ IF sse_env[1].decryptor_ok
       THEN sse_pc' = "next_db" /\ UNCHANGED sse_events
       ELSE Yield(ErrorEvent, "done")
    /\ UNCHANGED <<sse_env, sse_locals>>
    /\ StreamUnchanged

\* Lines 212-238: the head of the loop over the databases.  A disconnected
\* client ends the generator; otherwise the processing event is yielded and
\* the decryption task is started.
NextDatabase ==
    /\ sse_pc = "next_db"
    /\ sse_locals[1].overall_current < sse_env[1].databases
    /\ IF ~sse_env[1].connected
       THEN /\ sse_pc' = "done"
            /\ sse_locals' = Some([sse_locals[1] EXCEPT !.observed_disconnect = TRUE])
            /\ UNCHANGED <<sse_events, sse_env>>
       ELSE LET loc == [sse_locals[1] EXCEPT !.overall_current = @ + 1,
                                             !.tasks_started = @ + 1]
            IN /\ Yield(ProgressEvent(loc, sse_env[1].databases, "processing"), "wait")
               /\ sse_locals' = Some(loc)
               /\ sse_env' = Some([sse_env[1] EXCEPT !.task = "running"])
    /\ StreamUnchanged

\* Mutant: the wait loop finds the client gone and leaves the loop without
\* returning.
WaitDisconnected_Continue ==
    /\ sse_pc \in {"wait", "phase_wait"}
    /\ sse_env[1].task = "running"
    /\ ~sse_env[1].connected
    /\ sse_pc' = "next_db"
    /\ sse_locals' = Some([sse_locals[1] EXCEPT !.observed_disconnect = TRUE])
    /\ UNCHANGED <<sse_events, sse_env>>
    /\ StreamUnchanged

\* Lines 242-244 and 306-307: the wait loop finds the task running and the
\* client gone, and returns.
WaitDisconnected ==
    /\ sse_pc \in {"wait", "phase_wait"}
    /\ sse_env[1].task = "running"
    /\ ~sse_env[1].connected
    /\ sse_pc' = "done"
    /\ sse_locals' = Some([sse_locals[1] EXCEPT !.observed_disconnect = TRUE])
    /\ UNCHANGED <<sse_events, sse_env>>
    /\ StreamUnchanged

\* Lines 245-249 and 308-311: more than 15 s since the last heartbeat, the
\* task running and the client connected: a comment line.
Heartbeat ==
    /\ sse_pc \in {"wait", "phase_wait"}
    /\ sse_env[1].task = "running"
    /\ sse_env[1].connected
    /\ sse_locals[1].pings < MaxPings
    /\ sse_events' = Append(sse_events, PingComment)
    /\ sse_locals' = Some([sse_locals[1] EXCEPT !.pings = @ + 1])
    /\ UNCHANGED <<sse_pc, sse_env>>
    /\ StreamUnchanged

\* Mutant: a failed database is not counted.
DatabaseResult_FailNotCounted ==
    /\ sse_pc = "wait"
    /\ sse_env[1].task \in {"ok", "failed", "raised"}
    /\ LET ok == sse_env[1].task = "ok"
           loc == IF ok THEN [sse_locals[1] EXCEPT !.success_count = @ + 1]
                  ELSE sse_locals[1]
       IN /\ Yield(ProgressEvent(loc, sse_env[1].databases, IF ok THEN "success" ELSE "fail"),
                   "next_db")
          /\ sse_locals' = Some(loc)
    /\ sse_env' = Some([sse_env[1] EXCEPT !.task = "none"])
    /\ StreamUnchanged

\* Lines 251-283: the task is done; the counts and the result event.
DatabaseResult ==
    /\ sse_pc = "wait"
    /\ sse_env[1].task \in {"ok", "failed", "raised"}
    /\ LET ok == sse_env[1].task = "ok"
           loc == IF ok THEN [sse_locals[1] EXCEPT !.success_count = @ + 1]
                  ELSE [sse_locals[1] EXCEPT !.fail_count = @ + 1]
       IN /\ Yield(ProgressEvent(loc, sse_env[1].databases, IF ok THEN "success" ELSE "fail"),
                   "next_db")
          /\ sse_locals' = Some(loc)
    /\ sse_env' = Some([sse_env[1] EXCEPT !.task = "none"])
    /\ StreamUnchanged

\* lines 339-348: the key is stored for the account, then complete
Finish ==
    /\ Yield(CompleteEvent(sse_locals[1], sse_env[1].databases), "done")
    /\ sse_locals' = Some([sse_locals[1] EXCEPT !.key_stored = TRUE])

\* Lines 288-304 and 328-348: after the last database.  With the session
\* cache enabled the phase event is yielded and the build task started;
\* otherwise the stream finishes.
AfterDatabases ==
    /\ sse_pc = "next_db"
    /\ sse_locals[1].overall_current = sse_env[1].databases
    /\ IF sse_env[1].build_cache
       THEN /\ Yield(PhaseEvent, "phase_wait")
            /\ sse_env' = Some([sse_env[1] EXCEPT !.task = "running"])
            /\ UNCHANGED sse_locals
       ELSE Finish /\ UNCHANGED sse_env
    /\ StreamUnchanged

\* Lines 312-314 and 328-348: the build task is done, with a result or an
\* exception; the stream finishes.
PhaseResult ==
    /\ sse_pc = "phase_wait"
    /\ sse_env[1].task \in {"ok", "raised"}
    /\ Finish
    /\ sse_env' = Some([sse_env[1] EXCEPT !.task = "none"])
    /\ StreamUnchanged

\* The client disconnects.
ClientDisconnects ==
    /\ sse_pc \notin {"idle", "done"}
    /\ sse_env[1].connected
    /\ sse_env' = Some([sse_env[1] EXCEPT !.connected = FALSE])
    /\ UNCHANGED <<sse_pc, sse_events, sse_locals>>
    /\ StreamUnchanged

\* The thread of the task ends: decrypt_database returns true, returns false
\* or raises; build_session_last_message_table returns or raises.
TaskEnds ==
    /\ sse_pc \in {"wait", "phase_wait"}
    /\ sse_env[1].task = "running"
    /\ \E outcome \in (IF sse_pc = "wait" THEN {"ok", "failed", "raised"} ELSE {"ok", "raised"}) :
         sse_env' = Some([sse_env[1] EXCEPT !.task = outcome])
    /\ UNCHANGED <<sse_pc, sse_events, sse_locals>>
    /\ StreamUnchanged

(***************************************************************************)
(* POST /api/decrypt: decrypt_databases of routers/decrypt.py (lines       *)
(* 30-84).  http holds the request, the world the handler runs in, the     *)
(* calls it made on its collaborators and its answer.                      *)
(* decrypt_wechat_databases and upsert_account_keys_in_store are not in    *)
(* src/: the first returns a result with a status or raises, the second    *)
(* returns or raises.                                                      *)
(***************************************************************************)
\* len(request.key) of an accepted key (line 47)
KeyLength == 64

\* an HTTPException raised with a status code, or the body returned (200)
HttpError(code) == [status_code |-> code, status |-> ""]
HttpOk(status) == [status_code |-> 200, status |-> status]

\* The requests and their worlds: the length of the key, what
\* decrypt_wechat_databases does (its result's status and the number of accounts in
\* account_results, or an exception), whether the key store raises.
PostRequests ==
    [key_len : {0, KeyLength - 1, KeyLength, KeyLength + 1},
     decrypt : {"success", "error", "partial", "raises"},
     accounts : 0..2,
     store_raises : BOOLEAN]

\* Lines 45-48: the key is refused.
KeyRefused(r) == r.key_len = 0 \/ r.key_len /= KeyLength

\* The body of the try block (lines 45-80): the calls made, and the value
\* returned or the exception raised inside the block.
TryBlock(r) ==
    IF KeyRefused(r) THEN [calls |-> <<>>, raised |-> TRUE, value |-> HttpError(400)]
    ELSE IF r.decrypt = "raises"
    THEN [calls |-> <<"decrypt_wechat_databases">>, raised |-> TRUE, value |-> HttpError(500)]
    ELSE IF r.decrypt = "error"
    THEN [calls |-> <<"decrypt_wechat_databases">>, raised |-> TRUE, value |-> HttpError(400)]
    ELSE [calls |-> <<"decrypt_wechat_databases">>
                    \o [i \in 1..(IF r.store_raises THEN (IF r.accounts > 0 THEN 1 ELSE 0)
                                  ELSE r.accounts) |-> "upsert_account_keys_in_store"],
          raised |-> FALSE,
          value |-> HttpOk(IF r.decrypt = "success" THEN "completed" ELSE "failed")]

\* decrypt_databases (lines 30-84): every exception raised inside the try
\* block, the HTTPException of lines 48 and 58 included, is caught by
\* "except Exception" (line 82) and answered with HTTPException(500).
decrypt_databases(r) ==
    LET t == TryBlock(r)
    IN [calls |-> t.calls,
        response |-> IF t.raised THEN HttpError(500) ELSE t.value]

InitPost ==
    /\ EngineIdle
    /\ arg = None /\ ret = None
    /\ message_edits = {} /\ store_log = <<>>
    /\ sse_pc = "idle" /\ sse_events = <<>> /\ sse_env = None /\ sse_locals = None
    /\ headers = None /\ timing_calls = <<>>
    /\ upsert_calls = None
    /\ http \in {Some([route |-> "/api/decrypt", request |-> r, calls |-> <<>>,
                       response |-> None]) : r \in PostRequests}

WebUnchanged == UNCHANGED <<engine_vars, fn_vars, store_vars, sse_vars, timing_vars>>

\* The handler of POST /api/decrypt runs.
DecryptDatabases ==
    /\ http /= None /\ http[1].route = "/api/decrypt"
    /\ http[1].response = None
    /\ LET res == decrypt_databases(http[1].request)
       IN http' = Some([http[1] EXCEPT !.calls = res.calls, !.response = Some(res.response)])
    /\ UNCHANGED upsert_calls
    /\ WebUnchanged

(***************************************************************************)
(* PathFixRoute and PathFixRequest of path_fix.py.  The handler built by   *)
(* get_route_handler (lines 189-205) makes a PathFixRequest, looks for     *)
(* path_validation_error in its state and then awaits the original route   *)
(* handler, which is the caller of PathFixRequest.body (lines 116-183).    *)
(* The original route handler is FastAPI's and not in src/: it reads the   *)
(* body of the request and answers.                                        *)
(***************************************************************************)
AsciiLetters == TokenChars \ {"0", "1", "2", "3", "4", "5", "6", "7", "8", "9", "_", ".", "-"}

\* _is_absolute_path (lines 16-29)
is_absolute_path(path) ==
    IF path = <<>> THEN FALSE
    ELSE \/ /\ Len(path) >= 3
            /\ path[1] \in AsciiLetters
            /\ path[2] = ":"
            /\ path[3] \in {"/", "\\"}
         \/ path[1] = "/"

\* _validate_paths_in_json (lines 31-114): Optional error message, named by
\* its case.  fs says whether the path exists, how many database files the
\* walk finds under it and whether the walk raises.
validate_paths_in_json(json_data, fs) ==
    IF ~json_data.has_field THEN Some("missing")
    ELSE IF json_data.path = <<>> \/ CStrip(json_data.path) = <<>> THEN Some("empty")
    ELSE IF ~is_absolute_path(json_data.path) THEN Some("relative")
    ELSE IF ~fs.exists THEN Some("not_found")
    ELSE IF fs.walk = "PermissionError" THEN Some("permission")
    ELSE IF fs.walk = "Exception" THEN None
    ELSE IF fs.db_files = 0 THEN Some("no_db_files")
    ELSE None

\* PathFixRequest.body (lines 116-183): the error it records in the state of
\* the request, if any.  The body is validated when it parses as JSON, as
\* sent (parse = "ok") or after the backslashes were doubled (parse =
\* "fixable"); other content types are returned as they are.
BodyRecords(r) ==
    IF ~r.content_json \/ r.parse = "broken" THEN None
    ELSE validate_paths_in_json(r.json_data, r.fs)

\* The values of db_storage_path: none, blank, relative, absolute on Unix and
\* on Windows, a drive without a separator, a digit as the drive.
PathValues ==
    {<<>>, <<" ">>, <<"d", "b">>, <<"/", "d">>, <<"C", ":", "\\", "d">>,
     <<"C", ":", "d">>, <<"1", ":", "/">>}

\* The requests of a route of the router and their file systems.
PathFixRequests ==
    [content_json : BOOLEAN, parse : {"ok", "fixable", "broken"},
     json_data : [has_field : BOOLEAN, path : PathValues],
     fs : [exists : BOOLEAN, db_files : 0..1, walk : {"ok", "PermissionError", "Exception"}]]

InitRoute ==
    /\ EngineIdle
    /\ arg = None /\ ret = None
    /\ message_edits = {} /\ store_log = <<>>
    /\ sse_pc = "idle" /\ sse_events = <<>> /\ sse_env = None /\ sse_locals = None
    /\ headers = None /\ timing_calls = <<>>
    /\ upsert_calls = None
    /\ http \in {Some([route |-> "PathFixRoute", request |-> r, pc |-> "route",
                       path_validation_error |-> None, calls |-> <<>>, response |-> None])
                   : r \in PathFixRequests}

\* Lines 192-203: custom_route_handler makes the PathFixRequest and looks for
\* path_validation_error in its state; with it the answer is 400, without it
\* the original route handler is awaited.
CustomRouteHandler ==
    /\ http /= None /\ http[1].route = "PathFixRoute"
    /\ http[1].pc = "route"
    /\ IF http[1].path_validation_error /= None
       THEN http' = Some([http[1] EXCEPT !.pc = "done",
                                         !.response = Some([by |-> "custom_route_handler",
                                                            status_code |-> 400,
                                                            detail |-> http[1].path_validation_error[1]])])
       ELSE http' = Some([http[1] EXCEPT !.pc = "original",
                                         !.calls = Append(@, "original_route_handler")])
    /\ UNCHANGED upsert_calls
    /\ WebUnchanged

\* The original route handler awaits the body of the request, which is
\* PathFixRequest.body.
ReadBody ==
    /\ http /= None /\ http[1].route = "PathFixRoute"
    /\ http[1].pc = "original"
    /\ http' = Some([http[1] EXCEPT !.pc = "endpoint",
                                    !.calls = Append(@, "body"),
                                    !.path_validation_error = BodyRecords(http[1].request)])
    /\ UNCHANGED upsert_calls
    /\ WebUnchanged

\* The original route handler answers.
OriginalAnswers ==
    /\ http /= None /\ http[1].route = "PathFixRoute"
    /\ http[1].pc = "endpoint"
    /\ http' = Some([http[1] EXCEPT !.pc = "done",
                                    !.response = Some([by |-> "original_route_handler",
                                                       status_code |-> 0, detail |-> ""])])
    /\ UNCHANGED upsert_calls
    /\ WebUnchanged

(***************************************************************************)
(* The index readiness gate (lines 139-151 and 251-263).  The collaborators *)
(* get_chat_search_index_status and start_chat_search_index_build are not  *)
(* part of the sources: the probe returns the state of the index or        *)
(* raises, the trigger returns at once or raises, and the build it started *)
(* runs on its own.                                                        *)
(***************************************************************************)
\* The states of the index: the file exists, it holds the message_fts table,
\* the index is query-ready, and the status of its build.
IndexStates ==
    {s \in [exists : BOOLEAN, has_fts : BOOLEAN, ready : BOOLEAN,
             build : {"idle", "building", "error"}] : s.has_fts => s.exists}

\* The state at line 141, before the index is looked at.
InitGate ==
    /\ LibIdle
    /\ pc = "open"
    /\ InitPass
    /\ used_index = FALSE
    /\ index_status = None
    /\ index \in IndexStates
    /\ gate_calls = <<>>
    /\ calls = <<>>

\* Lines 141-150: index_path.exists(), the has_fts query and used_index.
OpenIndex ==
    /\ pc = "open"
    /\ used_index' = (index.exists /\ index.has_fts /\ my_username /= "")
    /\ pc' = IF used_index' THEN "rows" ELSE "probe"
    /\ gate_calls' = Append(gate_calls, GateCall("open", FALSE, index, FALSE))
    /\ UNCHANGED <<cursor_row, fetched, consumed, cur_username, conv_month_aggs,
                   prev_other_ts, per_month_aggs, aggs, month_winner_raw, months,
                   summary, index_status, index, calls, lib_vars>>

\* One iteration of `for row in cur` of the invocation that went through the gate.
FetchRowGate ==
    /\ pc = "rows"
    /\ fetched < MaxGateRows
    /\ \E r \in RowsWall :
         /\ CursorOrder(cursor_row, r)
         /\ cursor_row' = SortKey(r)
         /\ SetPassState(ProcessRow(PassState, r))
    /\ fetched' = fetched + 1
    /\ UNCHANGED <<pc, consumed, month_winner_raw, months, summary, gate_vars, calls, lib_vars>>

\* Mutant: the build is requested whatever the build status is.
ProbeStatus_IgnoreBuildStatus ==
    /\ pc = "probe"
    /\ \E raised \in BOOLEAN :
         /\ gate_calls' = Append(gate_calls, GateCall("probe", raised, index, FALSE))
         /\ IF raised
            THEN index_status' = None /\ pc' = "select"
            ELSE /\ index_status' = Some(index)
                 /\ pc' = IF ~index.ready THEN "trigger" ELSE "select"
    /\ UNCHANGED <<cursor_row, fetched, consumed, cur_username, conv_month_aggs,
                   prev_other_ts, per_month_aggs, aggs, month_winner_raw, months,
                   summary, used_index, index, calls, lib_vars>>

\* Mutant: an exception of the probe is not caught.
ProbeStatus_NoCatch ==
    /\ pc = "probe"
    /\ \E raised \in BOOLEAN :
         /\ gate_calls' = Append(gate_calls, GateCall("probe", raised, index, FALSE))
         /\ IF raised
            THEN index_status' = index_status /\ pc' = "failed"
            ELSE /\ index_status' = Some(index)
                 /\ pc' = IF ~index.ready /\ index.build \notin {"building", "error"}
                           THEN "trigger" ELSE "select"
    /\ UNCHANGED <<cursor_row, fetched, consumed, cur_username, conv_month_aggs,
                   prev_other_ts, per_month_aggs, aggs, month_winner_raw, months,
                   summary, used_index, index, calls, lib_vars>>

\* Lines 251-259 and 262-263: `if not used_index`, the probe and the test of its result.
ProbeStatus ==
    /\ pc = "probe"
    /\ \E raised \in BOOLEAN :
         /\ gate_calls' = Append(gate_calls, GateCall("probe", raised, index, FALSE))
         /\ IF raised
            THEN index_status' = None /\ pc' = "select"
            ELSE /\ index_status' = Some(index)
                 /\ pc' = IF ~index.ready /\ index.build \notin {"building", "error"}
                           THEN "trigger" ELSE "select"
    /\ UNCHANGED <<cursor_row, fetched, consumed, cur_username, conv_month_aggs,
                   prev_other_ts, per_month_aggs, aggs, month_winner_raw, months,
                   summary, used_index, index, calls, lib_vars>>

\* Mutant: after the request the engine waits until the index is ready.
TriggerBuild_Wait ==
    /\ pc = "trigger"
    /\ IF \A i \in 1..Len(gate_calls) : gate_calls[i].call /= "build"
       THEN /\ gate_calls' = Append(gate_calls,
                                    GateCall("build", FALSE, index, index_status[1].exists))
            /\ pc' = pc
       ELSE /\ index.ready
            /\ gate_calls' = gate_calls
            /\ pc' = "reprobe"
    /\ UNCHANGED <<cursor_row, fetched, consumed, cur_username, conv_month_aggs,
                   prev_other_ts, per_month_aggs, aggs, month_winner_raw, months,
                   summary, used_index, index_status, index, calls, lib_vars>>

\* Lines 260-261 and 262-263: start_chat_search_index_build(rebuild=index_exists).
TriggerBuild ==
    /\ pc = "trigger"
    /\ \E raised \in BOOLEAN :
         /\ gate_calls' = Append(gate_calls,
                                 GateCall("build", raised, index, index_status[1].exists))
         /\ IF raised
            THEN index_status' = None /\ pc' = "select"
            ELSE index_status' = index_status /\ pc' = "reprobe"
    /\ UNCHANGED <<cursor_row, fetched, consumed, cur_username, conv_month_aggs,
                   prev_other_ts, per_month_aggs, aggs, month_winner_raw, months,
                   summary, used_index, index, calls, lib_vars>>

\* Lines 262-263: the status is read again for the report.
Reprobe ==
    /\ pc = "reprobe"
    /\ \E raised \in BOOLEAN :
         /\ gate_calls' = Append(gate_calls, GateCall("probe", raised, index, FALSE))
         /\ index_status' = IF raised THEN None ELSE Some(index)
    /\ pc' = "select"
    /\ UNCHANGED <<cursor_row, fetched, consumed, cur_username, conv_month_aggs,
                   prev_other_ts, per_month_aggs, aggs, month_winner_raw, months,
                   summary, used_index, index, calls, lib_vars>>

\* A build was requested and the request returned.
BuildRequested ==
    \E i \in 1..Len(gate_calls) : gate_calls[i].call = "build" /\ ~gate_calls[i].raised

\* The build a request started, running beside the engine: it starts, and it
\* ends with a ready index or with an error.
RebuildStep ==
    /\ BuildRequested
    /\ \/ /\ index.build = "idle" /\ ~index.ready
          /\ index' = [index EXCEPT !.build = "building"]
       \/ /\ index.build = "building"
          /\ index' \in {UsableIndex, [index EXCEPT !.build = "error"]}
    /\ UNCHANGED <<pc, cursor_row, fetched, consumed, cur_username, conv_month_aggs,
                   prev_other_ts, per_month_aggs, aggs, month_winner_raw, months,
                   summary, used_index, index_status, gate_calls, calls, lib_vars>>

(***************************************************************************)
(* Concurrent invocations.  Every call of                                  *)
(* compute_monthly_best_friends_wall_stats has its own frame: the locals   *)
(* of lines 138-140 and 182-184 and the closure flush_conv.  A frame holds *)
(* the rows its cursor will deliver (the index contents of its account and *)
(* year), its position and its locals.                                     *)
(***************************************************************************)
\* The index contents of the concurrent invocations, in cursor order.
Streams ==
    {<<>>,
     Script("strong", "wxid_a", 1),
     Script("low", "wxid_a", 1) \o Script("strong", "wxid_b", 1),
     Script("low", "wxid_b", 2)}

NewFrame(stream) ==
    [pc |-> "rows", stream |-> stream, fetched |-> 0, pass |-> PassStart,
     month_winner_raw |-> <<>>, months |-> <<>>, summary |-> None]

\* Mutant: prev_other_ts is a module-level variable, the one of the first invocation.
CallState_SharedPending(i) ==
    [calls[i].pass EXCEPT !.prev_other_ts = calls[1].pass.prev_other_ts]

\* The locals of invocation i that the pass reads.
CallState(i) == calls[i].pass

InitPair ==
    /\ LibIdle
    /\ pc = "idle"
    /\ InitPass
    /\ used_index = TRUE
    /\ index_status = None
    /\ index = UsableIndex
    /\ gate_calls = <<>>
    /\ calls \in [1..MaxCalls -> {NewFrame(q) : q \in Streams}]

CallUnchanged ==
    UNCHANGED <<pc, cursor_row, fetched, consumed, cur_username, conv_month_aggs,
                prev_other_ts, per_month_aggs, aggs, month_winner_raw, months,
                summary, gate_vars, lib_vars>>

\* One iteration of `for row in cur` in invocation i.
CallFetchRow(i) ==
    /\ calls[i].pc = "rows"
    /\ calls[i].fetched < Len(calls[i].stream)
    /\ calls' = [calls EXCEPT
                   ![i].fetched = @ + 1,
                   ![i].pass = ProcessRow(CallState(i), calls[i].stream[calls[i].fetched + 1])]
    /\ CallUnchanged

\* The cursor of invocation i is exhausted: the flush_conv() of line 237.
CallEndOfRows(i) ==
    /\ calls[i].pc = "rows"
    /\ calls[i].fetched = Len(calls[i].stream)
    /\ calls' = [calls EXCEPT ![i].pass = flush_conv(CallState(i)), ![i].pc = "select"]
    /\ CallUnchanged

\* The loop of lines 265-309 in invocation i.
CallSelectWinners(i) ==
    /\ calls[i].pc = "select"
    /\ calls' = [calls EXCEPT
                   ![i].month_winner_raw =
                       Winners(CallState(i).aggs, CallState(i).per_month_aggs),
                   ![i].pc = "compose"]
    /\ CallUnchanged

\* Lines 311-425 in invocation i.
CallComposeResult(i) ==
    /\ calls[i].pc = "compose"
    /\ calls' = [calls EXCEPT
                   ![i].months = BuildMonths(CallState(i).aggs, calls[i].month_winner_raw),
                   ![i].summary = Some(BuildSummary(
                       BuildMonths(CallState(i).aggs, calls[i].month_winner_raw))),
                   ![i].pc = "done"]
    /\ CallUnchanged

(***************************************************************************)
(* Specifications.                                                         *)
(*  Spec      : the cursor delivers up to MaxRows rows of two conversations *)
(*              in January, enough for aggregates to become eligible.      *)
(*  SpecTrace : the cursor delivers up to MaxTrace rows of a wider alphabet *)
(*              (usernames that differ by white space only, an official     *)
(*              account, malformed rows, two months) and records them.     *)
(***************************************************************************)
Next == FetchRow \/ EndOfRows \/ SelectWinners \/ ComposeResult

Spec == Init /\ [][Next]_vars

NextTrace == FetchRowTraced \/ EndOfRows \/ SelectWinners \/ ComposeResult

SpecTrace == Init /\ [][NextTrace]_vars

NextClock == FetchRowClock \/ EndOfRows \/ SelectWinners \/ ComposeResult

\* The pass over rows around the window, day and month boundaries.
SpecClock == Init /\ [][NextClock]_vars

NextPool == SelectWinners \/ ComposeResult

SpecPool == InitPool /\ [][NextPool]_vars

\* The selection and the result over the drawn rankings of January.
SpecRank == InitRank /\ [][NextPool]_vars

\* The selection and the result over a January of conversations above and
\* below the thresholds.
SpecFrame == InitFrame /\ [][NextPool]_vars

\* The scorer applied to one drawn call.
NextScore == ScoreMonthAgg

SpecScore == InitScore /\ [][NextScore]_vars

\* The message id functions applied to one drawn call, parse_message_id also
\* to the result of format_message_id.
NextMessageId == FormatMessageId \/ ParseMessageId \/ ParseFormatted

SpecMessageId == InitMessageId /\ [][NextMessageId]_vars

\* A drawn payload written with dumps_json_with_blobs and read back.
NextBlob == DumpsJsonWithBlobs \/ LoadsDumped

SpecBlob == InitBlob /\ [][NextBlob]_vars

\* Calls on the message edit store, one after the other.
NextStore == UpsertOriginalOnce \/ UpdateMessageEditLocalId

SpecStore == InitStore /\ [][NextStore]_vars

\* Two overlapping calls of upsert_original_once.
NextRace == SelectExisting \/ InsertOrUpdate \/ CommitAndClose

SpecRace == InitRace /\ [][NextRace]_vars

\* The function applied again and again to one headers mapping.
NextTiming == AddSnsStageTimingHeaders

SpecTiming == InitTiming /\ [][NextTiming]_vars

\* One decrypt stream, its client and its tasks.
NextStream ==
    \/ ValidateRequest
    \/ ScanDatabases
    \/ InitDecryptor
    \/ NextDatabase
    \/ WaitDisconnected
    \/ Heartbeat
    \/ DatabaseResult
    \/ AfterDatabases
    \/ PhaseResult
    \/ ClientDisconnects
    \/ TaskEnds

SpecStream == InitStream /\ [][NextStream]_vars

\* One request of POST /api/decrypt.
NextPost == DecryptDatabases

SpecPost == InitPost /\ [][NextPost]_vars

\* One request through the handler PathFixRoute builds.
NextRoute == CustomRouteHandler \/ ReadBody \/ OriginalAnswers

SpecRoute == InitRoute /\ [][NextRoute]_vars

\* The steps of the engine, and the engine beside the build it may have started.
EngineGate ==
    \/ OpenIndex \/ FetchRowGate \/ EndOfRows \/ ProbeStatus \/ TriggerBuild \/ Reprobe
    \/ SelectWinners \/ ComposeResult

NextGate == EngineGate \/ RebuildStep

SpecGate == InitGate /\ [][NextGate]_vars

\* Any interleaving of the steps of the concurrent invocations.
NextPair ==
    \E i \in 1..MaxCalls :
        \/ CallFetchRow(i) \/ CallEndOfRows(i) \/ CallSelectWinners(i) \/ CallComposeResult(i)

SpecPair == InitPair /\ [][NextPair]_vars

\* The engine is a sequential program that keeps running; nothing is assumed
\* about the progress of the build.
SpecGateLive == InitGate /\ [][NextGate]_vars /\ WF_vars(EngineGate)

(***************************************************************************)
(* Properties.                                                             *)
(***************************************************************************)
Finished == pc = "done"

\* The eligibility thresholds as the specification states them.
MeetsThresholds(agg) ==
    /\ agg.incoming + agg.outgoing >= 8
    /\ agg.incoming >= 3 /\ agg.outgoing >= 3
    /\ agg.replies >= 1
    /\ Cardinality(agg.active_days) >= 2

\* The aggregates of month m in the pool that meet the thresholds.
QualifiedOf(m) ==
    {per_month_aggs[m][i] : i \in {j \in 1..Len(per_month_aggs[m]) :
                                     MeetsThresholds(aggs[per_month_aggs[m][j]])}}

\* The score and the ranking key of an aggregate among the qualified ones of its month.
RankScore(m, id) ==
    LET InteractionOf(x) == Interaction(aggs[x])
        ActiveDaysOf(x) == ActiveDaysCount(aggs[x])
        mi == CHOOSE v \in {InteractionOf(x) : x \in QualifiedOf(m)} :
                  \A x \in QualifiedOf(m) : InteractionOf(x) <= v
        md == CHOOSE v \in {ActiveDaysOf(x) : x \in QualifiedOf(m)} :
                  \A x \in QualifiedOf(m) : ActiveDaysOf(x) <= v
    IN score_month_agg(aggs[id], mi, md, tau_seconds, weights)

RankKey(m, id) == TieKey(aggs[id], RankScore(m, id))

\* C1: in every month with at least one eligible aggregate the result names one
\* winner, an eligible aggregate of that month before which no other eligible
\* aggregate of the month ranks under the ascending tuple (-finalScore,
\* -interaction, avgReplyGapCappedSeconds, -activeDaysCount, conversationId); in
\* particular its finalScore is the maximum among the eligible aggregates.
C1_WinnerRanksFirst ==
    Finished =>
      \A m \in Months :
        QualifiedOf(m) /= {} =>
          /\ m \in DOMAIN month_winner_raw
          /\ months[m].winner /= None
          /\ LET w == month_winner_raw[m].agg
             IN /\ w \in QualifiedOf(m)
                /\ months[m].winner[1].username = aggs[w].username
                /\ months[m].winner[1].score = RankScore(m, w).final
                /\ \A x \in QualifiedOf(m) :
                     /\ ~KeyLess(RankKey(m, x), RankKey(m, w))
                     /\ RankScore(m, x).final <= months[m].winner[1].score

\* A month with two eligible conversations whose winner has the lower message
\* volume and the higher final score.
C1_Witness ==
    /\ Finished
    /\ \E m \in Months :
         /\ m \in DOMAIN month_winner_raw
         /\ \E x \in QualifiedOf(m) :
              /\ aggs[x].username /= aggs[month_winner_raw[m].agg].username
              /\ Total(aggs[x]) > Total(aggs[month_winner_raw[m].agg])
              /\ RankScore(m, x).final < RankScore(m, month_winner_raw[m].agg).final

\* C2: a month in which no aggregate meets all thresholds (a month without
\* events included) has winner = null and reason = "insufficient_data".
C2_NoEligibleNoWinner ==
    Finished =>
      \A m \in Months :
        QualifiedOf(m) = {} =>
          /\ months[m].winner = None
          /\ months[m].reason = Some("insufficient_data")

\* A month with aggregates none of which is eligible, beside a month without events.
C2_Witness ==
    /\ Finished
    /\ \E m \in Months : per_month_aggs[m] /= <<>> /\ QualifiedOf(m) = {}
                         /\ months[m].winner = None
    /\ \E m \in Months : per_month_aggs[m] = <<>> /\ months[m].winner = None

\* C3: every reported month winner meets the four thresholds in that month:
\* total >= 8, min(incoming, outgoing) >= 3, replyCount >= 1, activeDaysCount >= 2.
C3_WinnerMeetsThresholds ==
    Finished =>
      \A m \in Months :
        months[m].winner /= None =>
          /\ months[m].raw /= None
          /\ months[m].raw[1].totalMessages >= 8
          /\ months[m].raw[1].interaction >= 3
          /\ months[m].raw[1].replyCount >= 1
          /\ months[m].raw[1].activeDays >= 2
          /\ \E i \in 1..Len(per_month_aggs[m]) :
               LET agg == aggs[per_month_aggs[m][i]]
               IN /\ agg.username = months[m].winner[1].username
                  /\ MeetsThresholds(agg)
                  /\ months[m].raw[1].totalMessages = agg.incoming + agg.outgoing
                  /\ months[m].raw[1].interaction = Min(agg.incoming, agg.outgoing)
                  /\ months[m].raw[1].replyCount = agg.replies
                  /\ months[m].raw[1].activeDays = Cardinality(agg.active_days)

\* A conversation with 7 messages that meets the other three thresholds and is
\* the only one of its month: the month has no winner.
C3_Witness ==
    /\ Finished
    /\ \E m \in Months :
         /\ Len(per_month_aggs[m]) = 1
         /\ LET agg == aggs[per_month_aggs[m][1]]
            IN /\ Total(agg) = 7 /\ Interaction(agg) >= 3
               /\ agg.replies >= 1 /\ ActiveDaysCount(agg) >= 2
         /\ months[m].winner = None

(***************************************************************************)
(* Properties of the pass, stated on the recorded rows.                    *)
(***************************************************************************)
RECURSIVE SeqSum(_)
SeqSum(q) == IF q = <<>> THEN 0 ELSE q[1] + SeqSum(Tail(q))

RepliesTotal(heap) == SeqSum([i \in 1..Len(heap) |-> heap[i].replies])
SumGapTotal(heap) == SeqSum([i \in 1..Len(heap) |-> heap[i].sum_gap])

\* The conversation of a row, its direction, and the rows that are not malformed.
Conv(r) == Strip(r.username)
IsOutgoing(r) == Strip(r.sender) = my_username
WellFormed(r) == r.ts > 0 /\ Strip(r.username) /= ""
Kept(r) == WellFormed(r) /\ Strip(r.username) /= "gh_news"
Seen(tr) == LET Test(r) == WellFormed(r) IN SelectSeq(tr, Test)

\* All rows of a conversation are contiguous: a row that changes the
\* conversation never returns to an earlier one.
Contiguous(tr) ==
    LET q == Seen(tr)
        c == [i \in 1..Len(q) |-> Conv(q[i])]
    IN \A j \in 2..Len(q) :
         c[j] /= c[j - 1] => \A i \in 1..(j - 1) : c[i] /= c[j]

\* The ordering precondition: conversations contiguous, timestamps ascending in each.
OrderedTrace(tr) ==
    LET q == Seen(tr)
        c == [i \in 1..Len(q) |-> Conv(q[i])]
    IN \A j \in 2..Len(q) :
         IF c[j] = c[j - 1] THEN q[j - 1].ts <= q[j].ts
         ELSE \A i \in 1..(j - 1) : c[i] /= c[j]

\* The cursor delivers a row in this step; the row.
RowStep == consumed' /= consumed
NewRow == consumed'[Len(consumed')]

\* An incoming message of r's conversation is pending after the rows tr: the
\* last well-formed row is a kept incoming row of that conversation.
IncomingPending(tr, r) ==
    LET q == Seen(tr)
    IN /\ q /= <<>>
       /\ Conv(q[Len(q)]) = Conv(r)
       /\ Kept(q[Len(q)])
       /\ ~IsOutgoing(q[Len(q)])

C4_Step ==
    (RowStep /\ OrderedTrace(consumed') /\ Kept(NewRow) /\ IsOutgoing(NewRow)) =>
        IF IncomingPending(consumed, NewRow)
        THEN /\ RepliesTotal(aggs') = RepliesTotal(aggs) + 1
             /\ SumGapTotal(aggs') =
                  SumGapTotal(aggs) + (NewRow.ts - Seen(consumed)[Len(Seen(consumed))].ts)
             /\ prev_other_ts' = None
        ELSE /\ RepliesTotal(aggs') = RepliesTotal(aggs)
             /\ SumGapTotal(aggs') = SumGapTotal(aggs)

C4_T0 == Ts(1, 31, 23, 0, 0)

C4_Scenario ==
    consumed = <<Row("wxid_a", "peer", C4_T0), Row("wxid_a", my_username, C4_T0 + 60),
                 Row("wxid_a", my_username, C4_T0 + 120)>>

C4_Example ==
    C4_Scenario =>
        /\ Len(aggs) = 1
        /\ aggs[1].username = "wxid_a" /\ aggs[1].month = 1
        /\ aggs[1].replies = 1
        /\ aggs[1].sum_gap = 60
        /\ aggs[1].incoming = 1 /\ aggs[1].outgoing = 2

\* C4: under the ordering precondition an outgoing message earns a reply credit
\* (replyCount + 1, gap = its timestamp minus the pending incoming timestamp) if
\* and only if an incoming message of its conversation is pending, and the credit
\* clears the pending timestamp; incoming@t0, outgoing@t0+60, outgoing@t0+120
\* gives replyCount = 1 and sumReplyGapSeconds = 60.
C4_ReplyCredit == [][C4_Step]_vars /\ []C4_Example

\* The three rows of the example have been processed.
C4_Witness == C4_Scenario /\ pc = "rows" /\ RepliesTotal(aggs) = 1

\* Index in tr of the most recent kept incoming row of conversation u (0: none).
LastIncoming(tr, u) ==
    LET idx == {i \in 1..Len(tr) : Kept(tr[i]) /\ Conv(tr[i]) = u /\ ~IsOutgoing(tr[i])}
    IN IF idx = {} THEN 0 ELSE CHOOSE i \in idx : \A j \in idx : j <= i

C5_Step ==
    (RowStep /\ OrderedTrace(consumed') /\ RepliesTotal(aggs') /= RepliesTotal(aggs)) =>
        /\ Kept(NewRow) /\ IsOutgoing(NewRow)
        /\ LastIncoming(consumed, Conv(NewRow)) /= 0
        /\ RepliesTotal(aggs') = RepliesTotal(aggs) + 1
        /\ SumGapTotal(aggs') - SumGapTotal(aggs) =
             NewRow.ts - consumed[LastIncoming(consumed, Conv(NewRow))].ts

\* Credits so far = incoming messages directly followed by an outgoing message of
\* the same conversation: an incoming message followed by another incoming one
\* never earns a credit.
C5_Credits ==
    OrderedTrace(consumed) =>
        LET q == Seen(consumed)
        IN RepliesTotal(aggs) =
             Cardinality({i \in 1..(Len(q) - 1) :
                            /\ Kept(q[i]) /\ ~IsOutgoing(q[i])
                            /\ Conv(q[i + 1]) = Conv(q[i]) /\ IsOutgoing(q[i + 1])})

C5_Scenario ==
    /\ Len(consumed) = 3
    /\ consumed[1] = Row("wxid_a", "peer", consumed[1].ts)
    /\ consumed[2] = Row("wxid_a", "peer", consumed[2].ts)
    /\ consumed[3] = Row("wxid_a", my_username, consumed[3].ts)
    /\ 0 < consumed[1].ts /\ consumed[1].ts < consumed[2].ts /\ consumed[2].ts < consumed[3].ts

C5_Example ==
    C5_Scenario =>
        /\ RepliesTotal(aggs) = 1
        /\ SumGapTotal(aggs) = consumed[3].ts - consumed[2].ts

\* C5: when several incoming messages precede an outgoing message with no
\* outgoing message between them, the credited gap is measured from the most
\* recent of them, and the earlier incoming messages never earn a credit.
C5_GapFromLatestIncoming == [][C5_Step]_vars /\ []C5_Credits /\ []C5_Example

\* incoming@t0, incoming@t1, outgoing@t2 with t0 < t1 < t2 has been processed.
C5_Witness == C5_Scenario /\ RepliesTotal(aggs) = 1

\* The conversations of the model and the (conversation, month) pairs with a kept row.
Conversations == {Strip(RawOrder[i]) : i \in 1..Len(RawOrder)} \ {""}

AcceptedPairs(tr) ==
    {<<Conv(tr[i]), MonthOf(tr[i].ts)>> : i \in {j \in 1..Len(tr) : Kept(tr[j])}}

\* Number of aggregates of conversation u in the pool of month m.
PoolCount(u, m) ==
    Cardinality({i \in 1..Len(per_month_aggs[m]) : aggs[per_month_aggs[m][i]].username = u})

PassOver == pc /= "rows"

C6_Pool ==
    (PassOver /\ Contiguous(consumed)) =>
        LET pairs == AcceptedPairs(consumed)
        IN /\ \A p \in pairs : PoolCount(p[1], p[2]) = 1
           /\ \A m \in Months : \A i \in 1..Len(per_month_aggs[m]) :
                 /\ <<aggs[per_month_aggs[m][i]].username, m>> \in pairs
                 /\ aggs[per_month_aggs[m][i]].month = m

C6_Lazy ==
    Contiguous(consumed) => Len(aggs) = Cardinality(AcceptedPairs(consumed))

C6_Step ==
    (RowStep /\ Contiguous(consumed') /\ aggs' /= aggs /\ Len(aggs') /= Len(aggs)) =>
        /\ Kept(NewRow)
        /\ <<Conv(NewRow), MonthOf(NewRow.ts)>> \notin AcceptedPairs(consumed)
        /\ Len(aggs') = Len(aggs) + 1
        /\ aggs'[Len(aggs')].username = Conv(NewRow)
        /\ aggs'[Len(aggs')].month = MonthOf(NewRow.ts)

\* C6: when all rows of a conversation are contiguous, after the pass the month
\* pool holds at most one aggregate per (conversationId, month) pair, and one
\* exactly for the pairs with at least one accepted event; an aggregate is
\* created only when the first event of its pair is processed.
C6_OneAggregatePerPair == []C6_Pool /\ []C6_Lazy /\ [][C6_Step]_vars

\* A contiguous input with two conversations, one of them in two months.
C6_Witness ==
    /\ Finished
    /\ Contiguous(consumed)
    /\ Cardinality(AcceptedPairs(consumed)) = 3
    /\ Cardinality({p[1] : p \in AcceptedPairs(consumed)}) = 2
    /\ Len(per_month_aggs[1]) + Len(per_month_aggs[2]) = 3

\* The heap indices that are in the month pool.
Pooled == UNION {{per_month_aggs[m][i] : i \in 1..Len(per_month_aggs[m])} : m \in Months}

C7_Order ==
    /\ (month_winner_raw /= <<>> \/ months /= <<>> \/ summary /= None) => PassOver
    /\ PassOver =>
         /\ conv_month_aggs = NoAggs
         /\ prev_other_ts = None
         /\ Pooled = 1..Len(aggs)

C7_Step ==
    /\ \A m \in Months :
         /\ Len(per_month_aggs'[m]) >= Len(per_month_aggs[m])
         /\ \A i \in 1..Len(per_month_aggs[m]) : per_month_aggs'[m][i] = per_month_aggs[m][i]
    /\ \A id \in Pooled : aggs'[id] = aggs[id]
    /\ \A m \in Months : conv_month_aggs[m] /= 0 => conv_month_aggs[m] \notin Pooled

\* C7: no aggregate is tested for eligibility or scored before the whole stream
\* has been consumed and the last conversation in progress has been flushed, and
\* once an aggregate is in the month pool no later event modifies it.
C7_ScoreAfterFlush == []C7_Order /\ [][C7_Step]_vars

\* Two conversations were flushed one after the other and a winner was selected.
C7_Witness ==
    /\ Finished
    /\ \E m \in Months : Len(per_month_aggs[m]) = 2 /\ m \in DOMAIN month_winner_raw

C8_Step ==
    (RowStep /\ WellFormed(NewRow) /\ Conv(NewRow) /= cur_username) =>
        /\ cur_username' = Conv(NewRow)
        /\ RepliesTotal(aggs') = RepliesTotal(aggs)
        /\ SumGapTotal(aggs') = SumGapTotal(aggs)
        /\ prev_other_ts' = IF Kept(NewRow) /\ ~IsOutgoing(NewRow)
                            THEN Some(NewRow.ts) ELSE None
        /\ \A m \in Months :
             conv_month_aggs'[m] /= 0 =>
                 /\ Kept(NewRow) /\ m = MonthOf(NewRow.ts)
                 /\ conv_month_aggs'[m] = Len(aggs) + 1
                 /\ Total(aggs'[conv_month_aggs'[m]]) = 1

\* The pending timestamp is that of an incoming row of the current conversation
\* after which no row of another conversation was delivered.
C8_PendingIsLocal ==
    prev_other_ts /= None =>
        \E i \in 1..Len(consumed) :
            /\ Kept(consumed[i]) /\ ~IsOutgoing(consumed[i])
            /\ Conv(consumed[i]) = cur_username
            /\ consumed[i].ts = prev_other_ts[1]
            /\ \A j \in i..Len(consumed) :
                 WellFormed(consumed[j]) => Conv(consumed[j]) = cur_username

\* C8: the pending incoming timestamp never crosses a conversation boundary: an
\* outgoing message that opens a conversation earns no credit for an un-replied
\* incoming message of the previous one; at every conversation change the
\* pending timestamp and the in-progress month map are reset.
C8_PendingScopedToConversation == [][C8_Step]_vars /\ []C8_PendingIsLocal

\* Conversation A ended with an un-replied incoming message and B started with an
\* outgoing one.
C8_Witness ==
    /\ Len(consumed) = 2
    /\ Kept(consumed[1]) /\ ~IsOutgoing(consumed[1])
    /\ Kept(consumed[2]) /\ IsOutgoing(consumed[2])
    /\ Conv(consumed[1]) /= Conv(consumed[2])
    /\ consumed[1].ts <= consumed[2].ts
    /\ RepliesTotal(aggs) = 0
    /\ prev_other_ts = None

\* Length of the first maximal run of rows of one conversation in q.
FirstRunLen(q) ==
    CHOOSE n \in 1..Len(q) :
        /\ \A i \in 1..n : Conv(q[i]) = Conv(q[1])
        /\ n < Len(q) => Conv(q[n + 1]) /= Conv(q[1])

\* For the well-formed rows q: the numbers of kept rows of month m in the
\* successive maximal runs of conversation u, runs without such a row left out.
RECURSIVE RunTotals(_, _, _)
RunTotals(q, u, m) ==
    IF q = <<>> THEN <<>>
    ELSE LET n == FirstRunLen(q)
             cnt == Cardinality({i \in 1..n : Kept(q[i]) /\ MonthOf(q[i].ts) = m})
             rest == RunTotals(SubSeq(q, n + 1, Len(q)), u, m)
         IN IF Conv(q[1]) = u /\ cnt > 0 THEN <<cnt>> \o rest ELSE rest

\* The totals of the aggregates of conversation u in the pool of month m, in pool order.
PoolTotals(u, m) ==
    LET Mine(id) == aggs[id].username = u
        ids == SelectSeq(per_month_aggs[m], Mine)
    IN [i \in 1..Len(ids) |-> Total(aggs[ids[i]])]

\* Number of kept rows of conversation u in month m.
EventsOf(tr, u, m) ==
    Cardinality({i \in 1..Len(tr) : Kept(tr[i]) /\ Conv(tr[i]) = u /\ MonthOf(tr[i].ts) = m})

\* The kept rows of conversation u are not contiguous in tr.
SplitConversation(tr, u) ==
    LET q == Seen(tr)
    IN \E i, k, j \in 1..Len(q) :
         /\ i < k /\ k < j
         /\ Kept(q[i]) /\ Kept(q[j])
         /\ Conv(q[i]) = u /\ Conv(q[j]) = u /\ Conv(q[k]) /= u

\* C9 as claimed: when the rows of a conversation are not contiguous, the pool
\* ends with more than one aggregate for one (conversationId, month) pair of that
\* conversation, each counting only part of the pair's events.
C9_SplitAlwaysDuplicates ==
    Finished =>
      \A u \in Conversations :
        SplitConversation(consumed, u) =>
          \E m \in Months :
            /\ PoolCount(u, m) > 1
            /\ \A i \in 1..Len(PoolTotals(u, m)) :
                 PoolTotals(u, m)[i] < EventsOf(consumed, u, m)

\* C9 (amended): whatever the order of the rows, the pass ends normally and the
\* pool holds, per (conversationId, month) pair, one aggregate for each maximal
\* run of contiguous rows of the conversation that has an accepted event in that
\* month, counting the events of that run only; so the pair has more than one
\* aggregate exactly when two separated runs both have an event in that month.
C9_OneAggregatePerRun ==
    PassOver =>
      LET q == Seen(consumed)
          us == {Conv(q[i]) : i \in 1..Len(q)}
          ms == {MonthOf(q[i].ts) : i \in 1..Len(q)}
      IN /\ \A m \in Months \ ms : per_month_aggs[m] = <<>>
         /\ \A m \in ms : \A i \in 1..Len(per_month_aggs[m]) :
               aggs[per_month_aggs[m][i]].username \in us
         /\ \A u \in us, m \in ms :
               /\ PoolTotals(u, m) = RunTotals(q, u, m)
               /\ PoolCount(u, m) > 1 =>
                    \A i \in 1..Len(PoolTotals(u, m)) :
                        PoolTotals(u, m)[i] < EventsOf(consumed, u, m)

\* A conversation split by another one, both parts in the same month: two
\* aggregates for the pair.
C9_Witness ==
    /\ Finished
    /\ \E u \in Conversations, m \in Months :
         /\ SplitConversation(consumed, u)
         /\ PoolCount(u, m) = 2
         /\ EventsOf(consumed, u, m) = 3

(***************************************************************************)
(* Properties of the year summary and of the months list, checked on       *)
(* index contents with winners in several months.                          *)
(***************************************************************************)
\* The months with a winner, the winner of such a month, the months a
\* conversation won and the conversations that won a month, read off the result.
WonMonths == {m \in 1..Len(months) : months[m].winner /= None}
WinnerName(m) == months[m].winner[1].username
MonthsWonBy(u) == Cardinality({m \in WonMonths : WinnerName(m) = u})
WinnerNames == {WinnerName(m) : m \in WonMonths}

\* C11: topChampion is the conversation that won the largest number of months,
\* among several with that number the one with the smallest conversationId in
\* ascending string order; topChampion.monthsWon is the number of months whose
\* winner it is; topChampion is null exactly when no month has a winner.
C11_TopChampion ==
    Finished =>
      LET top == summary[1].topChampion
      IN /\ (top = None) <=> (WonMonths = {})
         /\ top /= None =>
               /\ top[1].username \in WinnerNames
               /\ top[1].monthsWon = MonthsWonBy(top[1].username)
               /\ \A v \in WinnerNames :
                     /\ MonthsWonBy(v) <= top[1].monthsWon
                     /\ MonthsWonBy(v) = top[1].monthsWon => ~StrLess(v, top[1].username)

\* Two conversations won the same number of months and the smaller id is champion.
C11_Witness ==
    /\ Finished
    /\ WinnerNames = {"wxid_a", "wxid_b"}
    /\ MonthsWonBy("wxid_a") = MonthsWonBy("wxid_b")
    /\ summary[1].topChampion = Some([username |-> "wxid_a", monthsWon |-> MonthsWonBy("wxid_b")])

RECURSIVE SumMonthsWon(_)
SumMonthsWon(us) ==
    IF us = {} THEN 0
    ELSE LET u == CHOOSE x \in us : TRUE IN MonthsWonBy(u) + SumMonthsWon(us \ {u})

\* C12: summary.filledMonths lists exactly the months whose winner is non-null,
\* in ascending order; summary.monthsWithWinner is its length; the months won
\* summed over all winning conversations equal monthsWithWinner.
C12_FilledMonths ==
    Finished =>
      LET filled == summary[1].filledMonths
      IN /\ {filled[i] : i \in 1..Len(filled)} = WonMonths
         /\ \A i \in 1..(Len(filled) - 1) : filled[i] < filled[i + 1]
         /\ summary[1].monthsWithWinner = Len(filled)
         /\ SumMonthsWon(WinnerNames) = summary[1].monthsWithWinner

\* Months 1 and 3 have different winners; month 2 has messages but no winner.
C12_Witness ==
    /\ Finished
    /\ summary[1].filledMonths = <<1, 3>>
    /\ per_month_aggs[2] /= <<>>
    /\ WinnerName(1) /= WinnerName(3)

\* C13: the months list has 12 entries with month = 1, ..., 12 in this order; in
\* each entry winner is null exactly when raw is null and exactly when reason is
\* "insufficient_data"; the card built from the result has status "ok".
C13_MonthsShape ==
    Finished =>
      /\ Len(months) = 12
      /\ \A m \in 1..Len(months) :
            /\ months[m].month = m
            /\ (months[m].winner = None) <=> (months[m].raw = None)
            /\ (months[m].winner = None) <=> (months[m].reason = Some("insufficient_data"))
            /\ months[m].winner /= None => months[m].reason = None
      /\ build_card_04([months |-> months, summary |-> summary[1]]).status = "ok"

\* A result with a winner in one month, a month with messages and no winner and
\* months without messages.
C13_Witness ==
    /\ Finished
    /\ \E m \in Months : months[m].winner /= None /\ months[m].raw /= None
    /\ \E m \in Months : per_month_aggs[m] /= <<>> /\ months[m].winner = None
                         /\ months[m].reason = Some("insufficient_data")
    /\ \E m \in Months : per_month_aggs[m] = <<>> /\ months[m].raw = None

(***************************************************************************)
(* Properties of the index readiness gate.                                 *)
(***************************************************************************)
\* The positions of the build requests and of the probes among the calls, and
\* whether one of the calls raised.
BuildCalls == {i \in 1..Len(gate_calls) : gate_calls[i].call = "build"}
ProbeCalls == {i \in 1..Len(gate_calls) : gate_calls[i].call = "probe"}
GateRaised == \E i \in 1..Len(gate_calls) : gate_calls[i].raised

\* The index file did not exist when the invocation looked for it.
IndexMissing == gate_calls /= <<>> /\ ~gate_calls[1].seen.exists

AllInsufficient ==
    /\ Len(months) = 12
    /\ \A m \in 1..Len(months) :
          months[m].winner = None /\ months[m].reason = Some("insufficient_data")

\* C14: when the index does not exist, or the probe or the trigger raises, the
\* invocation does not fail and returns a normal result: all 12 months have
\* winner = null and reason = "insufficient_data", monthsWithWinner = 0 and
\* topChampion = null, and indexStatus is null when the probe or trigger raised.
C14_DegradesGracefully ==
    /\ pc \in {"open", "rows", "probe", "trigger", "reprobe", "select", "compose", "done"}
    /\ GateRaised => ~used_index
    /\ (Finished /\ (IndexMissing \/ GateRaised)) =>
          /\ AllInsufficient
          /\ summary[1].monthsWithWinner = 0
          /\ summary[1].topChampion = None
          /\ summary[1].filledMonths = <<>>
          /\ ~used_index
          /\ GateRaised => index_status = None

\* The index did not exist, the probe returned and the trigger raised; the
\* invocation returned.
C14_Witness ==
    /\ Finished
    /\ IndexMissing
    /\ \E i \in BuildCalls : gate_calls[i].raised
    /\ index_status = None
    /\ AllInsufficient

\* What holds of the probes and the requests whether or not the index exists.
C15_Requests ==
    /\ Cardinality(BuildCalls) <= 1
    /\ \A i \in BuildCalls :
          /\ ~used_index
          /\ i = 3 /\ gate_calls[1].call = "open" /\ gate_calls[2].call = "probe"
          /\ ~gate_calls[2].raised
          /\ ~gate_calls[2].seen.ready
          /\ gate_calls[2].seen.build \notin {"building", "error"}
    /\ Finished =>
          \A i \in BuildCalls :
             IF gate_calls[i].raised THEN Len(gate_calls) = i
             ELSE Len(gate_calls) = i + 1 /\ gate_calls[i + 1].call = "probe"
    /\ used_index => (BuildCalls = {} /\ ProbeCalls = {})

\* C15 as claimed: a build is requested at most once per invocation and only
\* when the index exists, was not usable for aggregation, is reported not
\* query-ready and its build status is neither "building" nor "error"; after a
\* request the status is probed exactly once more; with usedIndex = true there is
\* no probe and no request.
C15_RequestOnlyIfIndexExists ==
    /\ C15_Requests
    /\ \A i \in BuildCalls : gate_calls[1].seen.exists /\ gate_calls[2].seen.exists

\* C15 (amended): a build of the index is requested at most once per invocation,
\* and only when the index was not usable for aggregation, is reported not
\* query-ready and its build status is neither "building" nor "error", whether
\* the index exists or not; the request asks for a rebuild exactly when the index
\* is reported to exist.  After a request that returned, the status is probed
\* exactly once more.  With usedIndex = true there is no probe and no request.
C15_RequestAtMostOnce ==
    /\ C15_Requests
    /\ \A i \in BuildCalls : gate_calls[i].rebuild = gate_calls[2].seen.exists

\* A build (not a rebuild) was requested for an index that does not exist, the
\* status was probed once more and the invocation returned.
C15_Witness ==
    /\ Finished
    /\ BuildCalls = {3}
    /\ ~gate_calls[2].seen.exists
    /\ ~gate_calls[3].rebuild
    /\ ProbeCalls = {2, 4}

\* The result of an invocation that found no usable index.
C16_EmptyResult ==
    (Finished /\ ~used_index) =>
        /\ months = BuildMonths(<<>>, <<>>)
        /\ summary = Some([monthsWithWinner |-> 0, topChampion |-> None,
                            filledMonths |-> <<>>])

\* C16: the engine never waits for the build it triggered: every invocation
\* eventually returns, whether or not the build ever completes, and the month
\* results it returns do not depend on the progress of the build.
C16_NeverWaits == <>Finished /\ []C16_EmptyResult

\* The invocation returned after its request while the build has not even started.
C16_Witness ==
    /\ Finished
    /\ BuildRequested
    /\ index.build = "idle" /\ ~index.ready

(***************************************************************************)
(* Malformed rows.                                                         *)
(***************************************************************************)
C17_Step ==
    (RowStep /\ ~WellFormed(NewRow)) =>
        /\ pc' = pc
        /\ UNCHANGED <<cur_username, conv_month_aggs, prev_other_ts, per_month_aggs, aggs>>

\* The state of the pass and the result are those of the delivered rows with the
\* malformed ones removed.
C17_SameAsFiltered ==
    /\ pc = "rows" => PassState = RunPass(PassStart, Seen(consumed))
    /\ PassOver => PassState = PassOf(Seen(consumed))
    /\ Finished =>
          /\ months = ResultOf(PassOf(Seen(consumed))).months
          /\ summary = Some(ResultOf(PassOf(Seen(consumed))).summary)

\* C17: a malformed row (timestamp not a positive number, or empty conversation
\* id) is skipped without aborting the pass and leaves the current conversation
\* id, the in-progress month aggregates, the pending incoming timestamp and the
\* month pool unchanged, so that the result is the one of the same stream with
\* the malformed rows removed.
C17_MalformedRowSkipped == [][C17_Step]_vars /\ []C17_SameAsFiltered

\* An incoming message, a malformed row of another conversation, and the answer
\* to the incoming message, which is credited.
C17_Witness ==
    /\ Len(consumed) = 3
    /\ Kept(consumed[1]) /\ ~IsOutgoing(consumed[1])
    /\ ~WellFormed(consumed[2]) /\ consumed[2].username /= consumed[1].username
    /\ Kept(consumed[3]) /\ IsOutgoing(consumed[3]) /\ Conv(consumed[3]) = Conv(consumed[1])
    /\ RepliesTotal(aggs) = 1
    /\ SumGapTotal(aggs) = consumed[3].ts - consumed[1].ts

(***************************************************************************)
(* Concurrent invocations.                                                 *)
(***************************************************************************)
\* Invocation i is where it is when it runs alone over its rows.
C19_AsAlone(i) ==
    LET f == calls[i]
    IN /\ f.pc = "rows" => f.pass = RunPass(PassStart, SubSeq(f.stream, 1, f.fetched))
       /\ f.pc /= "rows" => f.pass = PassOf(f.stream)
       /\ f.pc = "done" =>
             /\ f.months = ResultOf(PassOf(f.stream)).months
             /\ f.summary = Some(ResultOf(PassOf(f.stream)).summary)

C19_AllAsAlone == \A i \in 1..MaxCalls : C19_AsAlone(i)

\* A step of one invocation leaves the frames of the others unchanged.
C19_Step ==
    \A i \in 1..MaxCalls :
        calls'[i] /= calls[i] => \A j \in (1..MaxCalls) \ {i} : calls'[j] = calls[j]

MonthContent(m) ==
    [i \in 1..Len(per_month_aggs[m]) |-> [aggs[per_month_aggs[m][i]] EXCEPT !.month = 0]]

MonthOutcome(m) == [months[m] EXCEPT !.month = 0]

\* C20: month selection is independent across months: the winner of month m is
\* determined by the aggregates of month m only, and winning one month never
\* excludes a conversation from winning another: the conversation that ranks
\* first among the eligible ones of a month wins it, in consecutive months too.
C20_MonthsIndependent ==
    Finished =>
      \A m \in Months :
        /\ QualifiedOf(m) /= {} =>
              /\ months[m].winner /= None
              /\ \E x \in QualifiedOf(m) :
                    /\ aggs[x].username = months[m].winner[1].username
                    /\ \A y \in QualifiedOf(m) \ {x} : KeyLess(RankKey(m, x), RankKey(m, y))
        /\ \A n \in Months : MonthContent(m) = MonthContent(n) => MonthOutcome(m) = MonthOutcome(n)

\* wxid_a wins months 1 and 2 in a row, wxid_b being eligible in both, and
\* wxid_b wins month 3.
C20_Witness ==
    /\ Finished
    /\ WonMonths = {1, 2, 3}
    /\ WinnerName(1) = "wxid_a" /\ WinnerName(2) = "wxid_a" /\ WinnerName(3) = "wxid_b"
    /\ Cardinality(QualifiedOf(1)) = 2 /\ Cardinality(QualifiedOf(2)) = 2

(***************************************************************************)
(* The scorer on the scenario of two eligible conversations.               *)
(***************************************************************************)
\* Aggregate A of the scenario: interaction 10 on 5 active days in 4 time
\* buckets with an average capped gap of 300 s; aggregate B: interaction 10 on
\* 2 active days in 1 time bucket with an average capped gap of 3000 s.
C21_IsA(agg) ==
    /\ Interaction(agg) = 10 /\ ActiveDaysCount(agg) = 5 /\ TimeBucketCount(agg) = 4
    /\ FracEq(AvgReplySecondsCapped(agg), <<300, 1>>)

C21_IsB(agg) ==
    /\ Interaction(agg) = 10 /\ ActiveDaysCount(agg) = 2 /\ TimeBucketCount(agg) = 1
    /\ FracEq(AvgReplySecondsCapped(agg), <<3000, 1>>)

\* January holds exactly the two eligible aggregates A and B.
C21_Scenario ==
    /\ tau_seconds = 1800
    /\ <<weight_interaction, weight_speed, weight_continuity, weight_coverage>> = <<40, 30, 20, 10>>
    /\ Cardinality(QualifiedOf(1)) = 2
    /\ \E x, y \in QualifiedOf(1) : C21_IsA(aggs[x]) /\ C21_IsB(aggs[y])

\* C21: with weights 0.40/0.30/0.20/0.10 and tau = 1800 s, in a month whose
\* eligible aggregates are A and B (maxima: interaction 10, 5 active days), A
\* gets a strictly higher finalScore than B and is the winner of the month,
\* whichever of the two was flushed into the pool first.
C21_AOutscoresB ==
    (Finished /\ C21_Scenario) =>
      \A x, y \in QualifiedOf(1) :
        (C21_IsA(aggs[x]) /\ C21_IsB(aggs[y])) =>
          /\ RankScore(1, x).final > RankScore(1, y).final
          /\ month_winner_raw[1].agg = x
          /\ months[1].winner = Some([username |-> aggs[x].username,
                                       score |-> RankScore(1, x).final])
          /\ months[1].winner[1].score > RankScore(1, y).final

\* The scenario with B flushed into the pool before A: A has won.
C21_Witness ==
    /\ Finished
    /\ C21_Scenario
    /\ C21_IsB(aggs[per_month_aggs[1][1]])
    /\ C21_IsA(aggs[per_month_aggs[1][2]])
    /\ months[1].winner /= None
    /\ months[1].winner[1].username = aggs[per_month_aggs[1][2]].username
    /\ months[1].winner[1].score = 957130

(***************************************************************************)
(* The score components.                                                   *)
(***************************************************************************)
\* The speed score of the applied call's aggregate under another tau.
SpeedAt(tau) ==
    score_month_agg(arg[1].agg, arg[1].month_max_interaction,
                    arg[1].month_max_active_days, tau, weights).speed

\* C22: speedScore = 1 / (1 + avgReplyGapCappedSeconds / tau) is monotone in
\* tau: for an aggregate with replyCount > 0 the speed score returned for tau
\* is not smaller than the one for any smaller tau and not larger than the one
\* for any larger tau, the other arguments being the same.
C22_SpeedMonotoneInTau ==
    (ret /= None /\ arg[1].agg.replies > 0) =>
      \A tau2 \in Taus :
        /\ arg[1].tau_seconds <= tau2 => ret[1].speed <= SpeedAt(tau2)
        /\ tau2 <= arg[1].tau_seconds => SpeedAt(tau2) <= ret[1].speed

\* An aggregate with replies and a positive average gap whose speed score for
\* tau = 600 is strictly below the one for tau = 1800.
C22_Witness ==
    /\ ret /= None
    /\ arg[1].agg.replies > 0
    /\ arg[1].agg.sum_gap_capped > 0
    /\ arg[1].tau_seconds = 600
    /\ ret[1].speed < SpeedAt(1800)

\* C23: for every eligible aggregate scored against the maxima of its month's
\* eligible set, interactionScore, speedScore, continuityScore, coverageScore
\* and finalScore each lie in [0, 1]; an aggregate with zero replies gets
\* speedScore = 1.
C23_ScoresInUnitInterval ==
    ret /= None =>
      /\ Eligible(arg[1].agg) =>
            /\ \A c \in {"interaction", "speed", "continuity", "coverage"} :
                  0 <= ret[1][c] /\ ret[1][c] <= SCALE
            /\ 0 <= ret[1].final /\ ret[1].final <= 100 * SCALE
      /\ arg[1].agg.replies = 0 => ret[1].speed = SCALE

\* An eligible aggregate that holds the maxima of its month and covers all four
\* time buckets, with a reply gap at the cap: every component but the speed is 1.
C23_Witness ==
    /\ ret /= None
    /\ Eligible(arg[1].agg)
    /\ arg[1].agg.sum_gap_capped = arg[1].agg.replies * gap_cap_seconds
    /\ ret[1].interaction = SCALE /\ ret[1].continuity = SCALE /\ ret[1].coverage = SCALE
    /\ 0 < ret[1].speed /\ ret[1].speed < SCALE
    /\ ret[1].final < 100 * SCALE

(***************************************************************************)
(* Ties in the ranking of a month.                                         *)
(***************************************************************************)
\* Two aggregates of January equal in finalScore, interaction, average capped
\* reply gap and active days.
C30_Tied(x, y) ==
    /\ RankScore(1, x).final = RankScore(1, y).final
    /\ Interaction(aggs[x]) = Interaction(aggs[y])
    /\ FracEq(AvgReplySecondsCapped(aggs[x]), AvgReplySecondsCapped(aggs[y]))
    /\ ActiveDaysCount(aggs[x]) = ActiveDaysCount(aggs[y])

\* x ranks before y under the ascending tuple (-finalScore, -interaction,
\* avgReplyGapCappedSeconds, -activeDaysCount, conversationId).
C30_Before(x, y) ==
    LET fx == RankScore(1, x).final
        fy == RankScore(1, y).final
        ix == Interaction(aggs[x])
        iy == Interaction(aggs[y])
        gx == AvgReplySecondsCapped(aggs[x])
        gy == AvgReplySecondsCapped(aggs[y])
        dx == ActiveDaysCount(aggs[x])
        dy == ActiveDaysCount(aggs[y])
    IN \/ fx > fy
       \/ fx = fy /\ ix > iy
       \/ fx = fy /\ ix = iy /\ FracLess(gx, gy)
       \/ fx = fy /\ ix = iy /\ FracEq(gx, gy) /\ dx > dy
       \/ C30_Tied(x, y) /\ StrLess(aggs[x].username, aggs[y].username)

\* The orders in which the aggregates of a pool can have been flushed into it.
C30_FlushOrders(pool) ==
    {q \in [1..Len(pool) -> {pool[i] : i \in 1..Len(pool)}] :
        \A i, j \in 1..Len(pool) : q[i] = q[j] => i = j}

\* The entry of January in the result had the pool been filled in order q.
C30_EntryOf(q) ==
    LET w == MonthWinner(aggs, q)
    IN IF w = None THEN MonthEntry(aggs, <<>>, 1)
       ELSE MonthEntry(aggs, [m \in {1} |-> w[1]], 1)

\* Of two tied aggregates the one with the smaller conversationId is not beaten
\* by the other: the other is not the winner, and the winner of the result
\* does not carry the other's conversationId unless a further aggregate of
\* that conversationId is eligible.
C30_SmallerIdFirst ==
    \A x, y \in QualifiedOf(1) :
        (x /= y /\ C30_Tied(x, y) /\ StrLess(aggs[x].username, aggs[y].username)) =>
            /\ month_winner_raw[1].agg /= y
            /\ (\A z \in QualifiedOf(1) : aggs[z].username = aggs[y].username => z = y)
                  => months[1].winner[1].username /= aggs[y].username

\* The ranking is total on the eligible aggregates of January.
C30_Total ==
    \A x, y \in QualifiedOf(1) : x /= y => (C30_Before(x, y) \/ C30_Before(y, x))

\* The entry of January is the same for every flush order of its pool.
C30_OrderFree ==
    \A q \in C30_FlushOrders(per_month_aggs[1]) : C30_EntryOf(q) = months[1]

\* The eligible aggregates of January have pairwise different conversationIds.
C30_UniqueIds ==
    \A x, y \in QualifiedOf(1) : x /= y => aggs[x].username /= aggs[y].username

\* The position of aggregate x in the pool of January.
C30_Pos(x) == CHOOSE i \in 1..Len(per_month_aggs[1]) : per_month_aggs[1][i] = x

\* C30 as claimed: of two distinct eligible aggregates of a month equal in
\* finalScore, interaction, avgReplyGapCappedSeconds and activeDaysCount the one
\* with the smaller conversationId wins; the ranking is a total order on the
\* month's eligible aggregates, and the winner does not depend on the order in
\* which conversations were flushed into the pool.
C30_TotalOrderOnEligible ==
    Finished => (C30_SmallerIdFirst /\ C30_Total /\ C30_OrderFree)

\* C30 as amended: the tie is broken by the smaller conversationId; when the
\* eligible aggregates of the month have pairwise different conversationIds
\* the ranking is a total order and the entry of the month does not depend on
\* the flush order; two tied aggregates of the same conversationId are ranked
\* in flush order, the one flushed first before the other.
C30_TieBrokenById ==
    Finished =>
      /\ C30_SmallerIdFirst
      /\ C30_UniqueIds => (C30_Total /\ C30_OrderFree)
      /\ \A x, y \in QualifiedOf(1) :
            (C30_Tied(x, y) /\ aggs[x].username = aggs[y].username
               /\ C30_Pos(x) < C30_Pos(y)) => month_winner_raw[1].agg /= y

\* wxid_b was flushed before wxid_a, the two are tied in all four values, and
\* wxid_a has won.
C30_Witness ==
    /\ Finished
    /\ Len(per_month_aggs[1]) = 2
    /\ LET x == per_month_aggs[1][1]
           y == per_month_aggs[1][2]
       IN /\ aggs[x].username = "wxid_b" /\ aggs[y].username = "wxid_a"
          /\ C30_Tied(x, y)
          /\ Total(aggs[x]) = 9
          /\ month_winner_raw[1].agg = y
          /\ months[1].winner[1].username = "wxid_a"

(***************************************************************************)
(* Message ids.                                                            *)
(***************************************************************************)
HasColon(s) == \E i \in 1..Len(s) : s[i] = ":"

AllSpaces(s) == \A i \in 1..Len(s) : s[i] = " "

AllDigits(s) == s /= <<>> /\ \A i \in 1..Len(s) : IsDigit(s[i])

\* The decimal numerals of positive integers.
C26_PositiveNumeral(t) == AllDigits(t) /\ DecimalVal(t) > 0

\* What int() reads as a positive integer: white space, an optional plus
\* sign, a numeral, white space.
C26_PositiveLiteral(t) ==
    \E a, b \in 1..Len(t) :
        /\ a <= b
        /\ AllSpaces(SubSeq(t, 1, a - 1)) /\ AllSpaces(SubSeq(t, b + 1, Len(t)))
        /\ \/ C26_PositiveNumeral(SubSeq(t, a, b))
           \/ t[a] = "+" /\ C26_PositiveNumeral(SubSeq(t, a + 1, b))

\* s is db:table:positive-integer with non-empty db and table, the integer
\* written in any way int() reads.
C26_Form(s) ==
    \E i, j \in 1..Len(s) :
        /\ i < j /\ s[i] = ":" /\ s[j] = ":"
        /\ SubSeq(s, 1, i - 1) /= <<>>
        /\ SubSeq(s, i + 1, j - 1) /= <<>>
        /\ C26_PositiveLiteral(SubSeq(s, j + 1, Len(s)))

\* A name that survives format_message_id and parse_message_id up to the
\* white space around it.
C26_Name(n) == ~HasColon(n) /\ ~AllSpaces(n)

\* s is cut by its first two colons into a db and a table that are not blank
\* and something int() reads as a positive integer.
C26_Accepted(s) ==
    \E i, j \in 1..Len(s) :
        /\ i < j /\ s[i] = ":" /\ s[j] = ":"
        /\ C26_Name(SubSeq(s, 1, i - 1))
        /\ C26_Name(SubSeq(s, i + 1, j - 1))
        /\ C26_PositiveLiteral(SubSeq(s, j + 1, Len(s)))

C26_Parsed == ret /= None /\ arg[1].fn = "parse_message_id"

C26_OfFormatted == C26_Parsed /\ "formatted" \in DOMAIN arg[1]

\* C26 as claimed: parse_message_id(format_message_id(db, table_name,
\* local_id)) = (db, table_name, local_id) for every non-empty db, non-empty
\* table_name and local_id > 0, and parse_message_id raises ValueError for
\* every string that is not of the form db:table:positive-integer with
\* non-empty db and table.
C26_RoundTripAll ==
    /\ C26_OfFormatted =>
          LET f == arg[1].formatted
          IN (f.db /= <<>> /\ f.table_name /= <<>> /\ f.local_id > 0) =>
                ret[1] = Returned(<<f.db, f.table_name, f.local_id>>)
    /\ (C26_Parsed /\ ~C26_Form(arg[1].message_id)) => ret[1].raised = "ValueError"

\* C26 as amended: for local_id > 0 and a db and a table_name that hold no
\* colon and are not blank, parse_message_id(format_message_id(db,
\* table_name, local_id)) is (db, table_name, local_id) with the white space
\* around db and table_name removed; with a colon in db or table_name, or a
\* blank one, it raises ValueError.  parse_message_id raises ValueError for
\* every string that its first two colons do not cut into a db and a table
\* that are not blank and a third part that int() reads as a positive integer
\* (digits, possibly after a plus sign and with white space around), and
\* returns the stripped db and table and that integer for the others.
C26_RoundTripOfNames ==
    /\ C26_OfFormatted =>
          LET f == arg[1].formatted
          IN f.local_id > 0 =>
                IF C26_Name(f.db) /\ C26_Name(f.table_name)
                THEN ret[1] = Returned(<<CStrip(f.db), CStrip(f.table_name), f.local_id>>)
                ELSE ret[1].raised = "ValueError"
    /\ C26_Parsed =>
          IF C26_Accepted(arg[1].message_id)
          THEN /\ ret[1].raised = ""
               /\ ~HasColon(ret[1].value[1]) /\ ~HasColon(ret[1].value[2])
               /\ ret[1].value[1] /= <<>> /\ ret[1].value[2] /= <<>>
               /\ ret[1].value[3] > 0
          ELSE ret[1].raised = "ValueError"

\* format_message_id(" m", "t", 10) was parsed back into ("m", "t", 10).
C26_Witness ==
    /\ C26_OfFormatted
    /\ arg[1].formatted.db = <<" ", "m">>
    /\ arg[1].message_id = <<"m", ":", "t", ":", "1", "0">>
    /\ ret[1] = Returned(<<<<"m">>, <<"t">>, MaxLocalId>>)

(***************************************************************************)
(* The round trip of a snapshot through JSON.                              *)
(***************************************************************************)
\* q is payload p restored: a bytes-like value of p is bytes of the same
\* content in q, every other leaf is unchanged, containers have the same keys
\* or length and restored members.
RECURSIVE C27_Restored(_, _)
C27_Restored(p, q) ==
    CASE p.t \in {"bytes", "bytearray", "memoryview"} -> q = PyBytes(p.v)
      [] p.t = "dict" -> /\ q.t = "dict"
                         /\ DOMAIN q.v = DOMAIN p.v
                         /\ \A k \in DOMAIN p.v : C27_Restored(p.v[k], q.v[k])
      [] p.t = "list" -> /\ q.t = "list"
                         /\ Len(q.v) = Len(p.v)
                         /\ \A i \in 1..Len(p.v) : C27_Restored(p.v[i], q.v[i])
      [] OTHER -> q = p

\* C27: loads_json_with_blobs(dumps_json_with_blobs(p)) restores a nested
\* payload p: every bytes-like value comes back as bytes with the same
\* content, and every other value (text, number, null) comes back unchanged, a
\* text value never turning into bytes.
C27_BlobRoundTrip ==
    (ret /= None /\ arg[1].fn = "loads_json_with_blobs") =>
        C27_Restored(arg[1].dumped, ret[1].value)

(***************************************************************************)
(* The message edit store.                                                 *)
(***************************************************************************)
\* the table after call i of store_log
StoreAfter(i) == IF i < Len(store_log) THEN store_log[i + 1].before ELSE message_edits

\* the normalised keys of the rows the drawn calls can store
C24_Keys == {<<(<<"a">>), (<<"s">>), (<<"m">>), (<<"t">>), lid>> : lid \in 1..2}

\* the calls of upsert_original_once for key k that returned, in order
C24_Upserts(k) ==
    SelectSeq(store_log,
              LAMBDA e : /\ e.call.fn = "upsert_original_once"
                         /\ e.ret.raised = ""
                         /\ NormKey(e.call.account, e.call.session_id, e.call.db,
                                    e.call.table_name, e.call.local_id) = k)

\* the calls so far are calls of upsert_original_once
C24_OnlyUpserts == \A i \in 1..Len(store_log) : store_log[i].call.fn = "upsert_original_once"

\* C24: after any sequence of n >= 1 upsert_original_once calls for the same
\* key the stored record keeps the original_msg and original_resource
\* snapshot and the first_edited_at of the first call, its last_edited_at is
\* the timestamp of the last call, and edit_count = n.
C24_FirstSnapshotKept ==
    C24_OnlyUpserts =>
        \A k \in C24_Keys :
            LET ups == C24_Upserts(k)
                n == Len(ups)
            IN IF n = 0 THEN RowsAt(message_edits, k) = {}
               ELSE /\ Cardinality(RowsAt(message_edits, k)) = 1
                    /\ \A r \in RowsAt(message_edits, k) :
                          /\ r.original_msg_json = MsgJson(ups[1].call)
                          /\ r.original_resource_json = ResJson(ups[1].call)
                          /\ r.first_edited_at = ups[1].ts
                          /\ r.last_edited_at = ups[n].ts
                          /\ r.edit_count = n

\* C24 witness: three calls for one key, written with and without a blank,
\* with different snapshots and timestamps, the last taking the clock.
C24_Witness ==
    /\ C24_OnlyUpserts
    /\ \E k \in C24_Keys :
          LET ups == C24_Upserts(k)
          IN /\ Len(ups) = 3
             /\ MsgJson(ups[1].call) /= MsgJson(ups[2].call)
             /\ ups[1].call.account /= ups[2].call.account
             /\ ups[3].call.now_ms = None
             /\ \E r \in RowsAt(message_edits, k) :
                   r.edit_count = 3 /\ r.original_msg_json = MsgJson(ups[1].call)

\* call i of store_log is a call of update_message_edit_local_id
C25_IsUpdate(i) == store_log[i].call.fn = "update_message_edit_local_id"

C25_Old(i) ==
    LET c == store_log[i].call
    IN NormKey(c.account, c.session_id, c.db, c.table_name, c.old_local_id)

C25_New(i) ==
    LET c == store_log[i].call
    IN NormKey(c.account, c.session_id, c.db, c.table_name, c.new_local_id)

\* what get_message_edit finds in table store for call i under local_id
C25_Get(store, i, local_id) ==
    LET c == store_log[i].call
    IN get_message_edit(store, c.account, c.session_id,
                        format_message_id(c.db, c.table_name, local_id))

\* call i returned True and moved the record: nothing is found under old, and
\* under new the record that was under old, with the new local_id
C25_Moved(i) ==
    LET c == store_log[i].call
        was == C25_Get(store_log[i].before, i, c.old_local_id)
        now == C25_Get(StoreAfter(i), i, c.new_local_id)
    IN /\ store_log[i].ret = Returned(TRUE)
       /\ C25_Get(StoreAfter(i), i, c.old_local_id) = None
       /\ was /= None /\ now /= None
       /\ now[1].row = [was[1].row EXCEPT !.local_id = c.new_local_id]

\* call i returned False and left every record as it was
C25_Refused(i) ==
    /\ store_log[i].ret = Returned(FALSE)
    /\ StoreAfter(i) = store_log[i].before

\* a record exists under the old key of call i
C25_ExistsOld(i) == RowsAt(store_log[i].before, C25_Old(i)) /= {}

\* another record exists under the new key of call i
C25_OtherAtNew(i) ==
    C25_New(i) /= C25_Old(i) /\ RowsAt(store_log[i].before, C25_New(i)) /= {}

\* C25 as stated: update_message_edit_local_id(old -> new) on an existing
\* record returns True and moves it; when no record exists under old, or
\* another record already exists under new, it returns False and leaves
\* every record of the store unchanged.
C25_MoveOrRefuse ==
    \A i \in 1..Len(store_log) :
        C25_IsUpdate(i) =>
            IF C25_ExistsOld(i) /\ ~C25_OtherAtNew(i) THEN C25_Moved(i) ELSE C25_Refused(i)

\* the keys of call i are ones the function accepts
C25_Valid(i) == ~KeyMissing(C25_Old(i)) /\ ~KeyMissing(C25_New(i))

\* C25 amended: with old /= new, a record under old and none under new, the
\* call returns True and moves the record; with old /= new and no record
\* under old, or another record under new, and for keys the function does not
\* accept, it returns False and leaves every record unchanged; with accepted
\* keys and old = new it returns True and leaves every record unchanged,
\* whether or not a record exists under old.
C25_MoveOrRefuseDistinct ==
    \A i \in 1..Len(store_log) :
        (C25_IsUpdate(i) /\ ~HasColon(store_log[i].call.db)
            /\ ~HasColon(store_log[i].call.table_name)) =>
            IF ~C25_Valid(i) THEN C25_Refused(i)
            ELSE IF C25_Old(i) = C25_New(i)
            THEN /\ store_log[i].ret = Returned(TRUE)
                 /\ StoreAfter(i) = store_log[i].before
            ELSE IF C25_ExistsOld(i) /\ ~C25_OtherAtNew(i) THEN C25_Moved(i)
            ELSE C25_Refused(i)

\* C25 witness: a record is moved from local_id 1 to 2, and then a call with
\* old = new = 1, where no record is left, returns True.
C25_Witness ==
    \E i, j \in 1..Len(store_log) :
        /\ i < j
        /\ C25_IsUpdate(i) /\ C25_Valid(i) /\ C25_Old(i) /= C25_New(i) /\ C25_Moved(i)
        /\ C25_IsUpdate(j) /\ C25_Valid(j) /\ C25_Old(j) = C25_New(j)
        /\ ~C25_ExistsOld(j)
        /\ store_log[j].ret = Returned(TRUE)

(***************************************************************************)
(* The Server-Timing header.                                               *)
(***************************************************************************)
\* the Server-Timing value of mapping h, "" when absent
ServerTiming(h) == IF "Server-Timing" \in DOMAIN h THEN h["Server-Timing"] ELSE <<>>

\* an sns_source_ metric begins at position i of value s: at its start or
\* after a comma and blanks
C29_MetricAt(s, i) ==
    /\ i + Len(SnsSource) <= Len(s)
    /\ SubSeq(s, i, i + Len(SnsSource)) = SnsSource \o <<"_">>
    /\ \E j \in 0..(i - 1) :
         /\ j = 0 \/ s[j] = ","
         /\ \A n \in (j + 1)..(i - 1) : s[n] = " "

\* the number of sns_source_ metrics of value s
C29_Metrics(s) == Cardinality({i \in 1..Len(s) : C29_MetricAt(s, i)})

\* the mapping after call i of timing_calls
TimingAfter(i) == IF i < Len(timing_calls) THEN timing_calls[i + 1].before ELSE headers

\* C29: add_sns_stage_timing_headers never adds a second sns_source_ metric:
\* when the existing Server-Timing already contains one (at its start or
\* after a comma) the call leaves Server-Timing unchanged, so after two calls
\* with a source there is exactly one sns_source_ metric; an upstream metric
\* is always preserved.
C29_NoSecondSourceMetric ==
    /\ \A i \in 1..Len(timing_calls) :
         LET was == ServerTiming(timing_calls[i].before)
             now == ServerTiming(TimingAfter(i))
         IN /\ C29_Metrics(was) >= 1 => now = was
            /\ \A n \in 1..Len(CStrip(was)) : n <= Len(now) /\ now[n] = CStrip(was)[n]
    /\ (Len(timing_calls) = 2
        /\ \A i \in 1..2 : CStrip(timing_calls[i].call.source) /= <<>>)
       => C29_Metrics(ServerTiming(headers)) = 1

(***************************************************************************)
(* The decrypt stream.                                                     *)
(***************************************************************************)
\* the events of the stream: what was yielded, without the comment lines
DataEvents == SelectSeq(sse_events, LAMBDA e : e.type /= ": ping")

\* the request passes the validation and a database is found
C28_Passes ==
    /\ sse_env /= None
    /\ sse_env[1].key = "ok" /\ sse_env[1].path = "ok"
    /\ sse_env[1].databases >= 1

\* scanning, then start, then progress events, with the phase event of the
\* session cache after them; no progress event before start, nothing after a
\* complete or an error event
C28_Ordered ==
    LET E == DataEvents
    IN /\ Len(E) >= 1 => E[1].type = "scanning"
       /\ Len(E) >= 2 => E[2].type = "start"
       /\ \A i \in 3..Len(E) : E[i].type \in {"progress", "phase", "complete", "error"}
       /\ \A i, j \in 1..Len(E) :
            i < j => /\ E[i].type \notin {"complete", "error"}
                     /\ E[i].type = "phase" => E[j].type /= "progress"

\* the type of the last event of the stream
C28_LastType == IF DataEvents = <<>> THEN "" ELSE DataEvents[Len(DataEvents)].type

\* C28 as stated, for a key the decryptor accepts: the events are ordered
\* scanning, start, progress events, and the last event of the ended stream
\* is complete.
C28_EndsWithComplete ==
    (C28_Passes /\ sse_env[1].decryptor_ok) =>
        /\ C28_Ordered
        /\ sse_pc = "done" => C28_LastType = "complete"

\* C28 amended: the events are ordered; an ended stream that has not seen
\* the client disconnect ends with complete, or with the error event after
\* start when the decryptor refuses the key; one that has seen the client
\* disconnect ends without a complete and without an error event.
C28_EndsWithCompleteUnlessDisconnected ==
    C28_Passes =>
        /\ C28_Ordered
        /\ sse_pc = "done" =>
             IF sse_locals[1].observed_disconnect
             THEN C28_LastType \notin {"complete", "error"}
             ELSE IF sse_env[1].decryptor_ok THEN C28_LastType = "complete"
             ELSE C28_LastType = "error" /\ Len(DataEvents) = 3

\* C28 witness: a stream of two databases that ended on the disconnect seen
\* before the second database, after a success event of the first.
C28_Witness ==
    /\ C28_Passes
    /\ sse_pc = "done"
    /\ sse_locals[1].observed_disconnect
    /\ sse_env[1].databases = 2
    /\ Len(DataEvents) = 4
    /\ DataEvents[4].type = "progress" /\ DataEvents[4].status = "success"

(***************************************************************************)
(* POST /api/decrypt.                                                      *)
(***************************************************************************)
\* C34: POST /api/decrypt with a key whose length is not 64, or whose
\* decryption result has status "error", is answered with HTTP status 400,
\* and for the invalid key decrypt_wechat_databases is never called.
C34_BadRequestIs400 ==
    (http /= None /\ http[1].route = "/api/decrypt" /\ http[1].response /= None) =>
        LET r == http[1].request
        IN /\ (r.key_len /= KeyLength \/ r.decrypt = "error")
                => http[1].response[1].status_code = 400
           /\ r.key_len /= KeyLength
                => \A i \in 1..Len(http[1].calls) : http[1].calls[i] /= "decrypt_wechat_databases"

(***************************************************************************)
(* The path validation of PathFixRoute.                                    *)
(***************************************************************************)
\* C33: when the body validation of PathFixRequest records a
\* path_validation_error for a request, the handler built by PathFixRoute
\* answers with HTTP 400 carrying that message and the original route handler
\* is not invoked.
C33_ValidationErrorIs400 ==
    (http /= None /\ http[1].route = "PathFixRoute"
        /\ http[1].path_validation_error /= None) =>
        /\ \A i \in 1..Len(http[1].calls) : http[1].calls[i] /= "original_route_handler"
        /\ http[1].pc = "done" =>
             http[1].response = Some([by |-> "custom_route_handler", status_code |-> 400,
                                      detail |-> http[1].path_validation_error[1]])

(***************************************************************************)
(* The month maxima and the aggregates below the thresholds.               *)
(***************************************************************************)
\* The pool of month m without its aggregates below the thresholds.
QualifiedPool(m) ==
    LET Keep(id) == MeetsThresholds(aggs[id]) IN SelectSeq(per_month_aggs[m], Keep)

\* Aggregates below the thresholds that a month could hold besides its own:
\* one with more interaction than any other, one with more active days.
FrameExtras ==
    {FrameAgg("wxid_a", p) : p \in {q \in FrameProfiles : q.days = 1 \/ q.replies = 0}}

\* C31: the month maxima that normalise interactionScore and continuityScore
\* are taken over the eligible aggregates of the month only: with the
\* ineligible aggregates of a month removed, or with one more ineligible
\* aggregate added (whatever its interaction or active days), every score and
\* the winner of the month are the same.
C31_IneligibleIsNeutral ==
    Finished =>
      \A m \in Months :
        LET pool == per_month_aggs[m]
            kept == QualifiedPool(m)
            recorded == IF m \in DOMAIN month_winner_raw THEN Some(month_winner_raw[m]) ELSE None
        IN /\ recorded = MonthWinner(aggs, kept)
           /\ kept /= <<>> =>
                /\ months[m].winner[1].score = RankScore(m, month_winner_raw[m].agg).final
                /\ months[m].metrics[1].interactionScore
                     = RankScore(m, month_winner_raw[m].agg).interaction
                /\ months[m].metrics[1].continuityScore
                     = RankScore(m, month_winner_raw[m].agg).continuity
                /\ \A i \in 1..Len(kept) :
                     Scored(aggs, EligibleIds(aggs, pool))[i].score = RankScore(m, kept[i])
           /\ \A extra \in FrameExtras :
                MonthWinner(Append(aggs, extra), Append(pool, Len(aggs) + 1)) = recorded

\* A finished January whose pool holds two eligible conversations and one
\* ineligible conversation with more interaction and more active days than
\* either, and whose winner is scored against the eligible maxima.
C31_Witness ==
    /\ Finished
    /\ Len(QualifiedPool(1)) = 2
    /\ \E x \in 1..Len(aggs) :
         /\ ~MeetsThresholds(aggs[x])
         /\ \A y \in QualifiedOf(1) :
              /\ Interaction(aggs[x]) > Interaction(aggs[y])
              /\ ActiveDaysCount(aggs[x]) > ActiveDaysCount(aggs[y])
    /\ 1 \in DOMAIN month_winner_raw
    /\ months[1].metrics[1].continuityScore = SCALE

(***************************************************************************)
(* The counts of an aggregate: time windows and active days.               *)
(***************************************************************************)
\* The delivered rows counted in aggregate id when every conversation's rows
\* are contiguous: the kept rows of its conversation in its month.
RowsOf(id) ==
    {i \in 1..Len(consumed) : /\ Kept(consumed[i])
                              /\ Conv(consumed[i]) = aggs[id].username
                              /\ MonthOf(consumed[i].ts) = aggs[id].month}

\* C32: timeBucketCount is the number of distinct six-hour windows (hour // 6)
\* and activeDaysCount the number of distinct days of the month in which the
\* conversation had a message in that month; every pooled aggregate has
\* 1 <= timeBucketCount <= 4, 1 <= activeDaysCount <= 31 and
\* activeDaysCount <= total.
C32_WindowsAndDays ==
    /\ Contiguous(consumed) =>
         \A id \in 1..Len(aggs) :
           /\ TimeBucketCount(aggs[id])
                = Cardinality({HourOf(consumed[i].ts) \div 6 : i \in RowsOf(id)})
           /\ ActiveDaysCount(aggs[id])
                = Cardinality({DayOf(consumed[i].ts) : i \in RowsOf(id)})
    /\ \A id \in Pooled :
         /\ 1 <= TimeBucketCount(aggs[id]) /\ TimeBucketCount(aggs[id]) <= 4
         /\ 1 <= ActiveDaysCount(aggs[id]) /\ ActiveDaysCount(aggs[id]) <= 31
         /\ ActiveDaysCount(aggs[id]) <= Total(aggs[id])

\* A pooled January aggregate of four messages in four windows on two days,
\* two of them one second apart on the two sides of a window boundary.
C32_Witness ==
    /\ PassOver
    /\ \E id \in Pooled :
         /\ Total(aggs[id]) = 4
         /\ TimeBucketCount(aggs[id]) = 4
         /\ ActiveDaysCount(aggs[id]) = 2
         /\ \E i, j \in RowsOf(id) : consumed[j].ts = consumed[i].ts + 1

(***************************************************************************)
(* Reply credits across a month change.                                    *)
(***************************************************************************)
\* The last well-formed row delivered so far.
LastSeen == Seen(consumed)[Len(Seen(consumed))]

\* An outgoing row that answers the pending incoming row is credited to the
\* aggregate of its own month, whatever the month of the incoming row.
C35_Step ==
    (/\ RowStep /\ Kept(NewRow) /\ IsOutgoing(NewRow)
     /\ IncomingPending(consumed, NewRow)
     /\ LastSeen.ts <= NewRow.ts) =>
        LET m == MonthOf(NewRow.ts)
            id == conv_month_aggs'[m]
            before == IF id \in DOMAIN aggs THEN aggs[id] ELSE NewAgg(Conv(NewRow), m)
        IN /\ id \in DOMAIN aggs'
           /\ aggs'[id].username = Conv(NewRow)
           /\ aggs'[id].month = m
           /\ aggs'[id].replies = before.replies + 1
           /\ aggs'[id].sum_gap = before.sum_gap + (NewRow.ts - LastSeen.ts)
           /\ aggs'[id].incoming = before.incoming
           /\ \A k \in DOMAIN aggs : k /= id => aggs'[k] = aggs[k]

\* The timestamp of an incoming row stays pending until the next well-formed
\* row, whichever month that row lies in.
C35_Pending ==
    (/\ pc = "rows" /\ Seen(consumed) /= <<>>
     /\ Kept(LastSeen) /\ ~IsOutgoing(LastSeen)) =>
        /\ cur_username = Conv(LastSeen)
        /\ prev_other_ts = Some(LastSeen.ts)

\* C35: a reply credit is recorded on the aggregate of the month of the
\* outgoing message, also when the incoming message it answers lies in an
\* earlier month of the same conversation: the pending incoming timestamp
\* survives a month change, so an aggregate can have more replies than
\* incoming messages.
C35_CreditInOutgoingMonth == [][C35_Step]_vars /\ []C35_Pending

\* An incoming message at noon of 31 January answered at 00:00 of 1 February:
\* the February aggregate has one reply and no incoming message, the January
\* aggregate the incoming message and no reply.
C35_Witness ==
    /\ consumed = <<Row("wxid_a", "peer", Ts(1, 31, 12, 0, 0)),
                    Row("wxid_a", my_username, Ts(2, 1, 0, 0, 0))>>
    /\ Len(aggs) = 2
    /\ aggs[1].month = 1 /\ aggs[1].incoming = 1 /\ aggs[1].replies = 0
    /\ aggs[2].month = 2 /\ aggs[2].replies = 1 /\ aggs[2].incoming = 0
    /\ aggs[2].replies > aggs[2].incoming
    /\ aggs[2].sum_gap = 12 * 3600

(***************************************************************************)
(* The reply counters of an aggregate.                                     *)
(***************************************************************************)
\* C36: at every point of the pass and for any order of the rows, every
\* aggregate has replyCount <= outgoingCount,
\* 0 <= sumReplyGapCappedSeconds <= sumReplyGapSeconds and
\* sumReplyGapCappedSeconds <= 21600 * replyCount.
C36_ReplyCounters ==
    \A id \in 1..Len(aggs) :
        /\ aggs[id].replies <= aggs[id].outgoing
        /\ 0 <= aggs[id].sum_gap_capped
        /\ aggs[id].sum_gap_capped <= aggs[id].sum_gap
        /\ aggs[id].sum_gap_capped <= 21600 * aggs[id].replies

\* Rows delivered out of timestamp order, and an aggregate whose one reply
\* has a gap above the cap.
C36_Witness ==
    /\ ~OrderedTrace(consumed)
    /\ \E id \in 1..Len(aggs) :
         /\ aggs[id].replies = 1
         /\ aggs[id].sum_gap_capped = 21600
         /\ aggs[id].sum_gap > 21600

(***************************************************************************)
(* Conservation of the accepted rows.                                      *)
(***************************************************************************)
\* Number of delivered rows that are accepted: positive timestamp and a
\* non-empty conversation id that is kept.
AcceptedCount == Cardinality({i \in 1..Len(consumed) : Kept(consumed[i])})

\* Sum of total over the entries of the pool of month m, and over all pools.
PoolTotal(m) == SeqSum([i \in 1..Len(per_month_aggs[m]) |-> Total(aggs[per_month_aggs[m][i]])])

AllPoolsTotal == SeqSum([m \in 1..12 |-> PoolTotal(m)])

\* A delivered row adds one to the total of exactly one aggregate when it is
\* accepted, and changes no aggregate otherwise.
C37_Step ==
    RowStep =>
        IF Kept(NewRow)
        THEN \E id \in DOMAIN aggs' :
               /\ Total(aggs'[id]) = (IF id \in DOMAIN aggs THEN Total(aggs[id]) ELSE 0) + 1
               /\ aggs'[id].username = Conv(NewRow)
               /\ aggs'[id].month = MonthOf(NewRow.ts)
               /\ \A k \in DOMAIN aggs' : k /= id => k \in DOMAIN aggs /\ aggs'[k] = aggs[k]
        ELSE aggs' = aggs

C37_Sum ==
    /\ SeqSum([i \in 1..Len(aggs) |-> Total(aggs[i])]) = AcceptedCount
    /\ PassOver =>
         /\ AllPoolsTotal = AcceptedCount
         /\ Cardinality(Pooled) = Len(aggs)

\* C37: the sum of total over all pooled aggregates equals the number of
\* accepted events (positive timestamp, non-empty kept conversation id): each
\* accepted event is counted in exactly one aggregate exactly once, whether
\* or not the ordering precondition holds.
C37_Conservation == [][C37_Step]_vars /\ []C37_Sum

\* A finished pass over four rows out of order, one of them not accepted: the
\* pools hold three messages in more than one aggregate.
C37_Witness ==
    /\ PassOver
    /\ ~OrderedTrace(consumed)
    /\ Len(consumed) = 4
    /\ AcceptedCount = 3
    /\ AllPoolsTotal = 3
    /\ Len(aggs) >= 2

(***************************************************************************)
(* The counts of the decrypt stream.                                       *)
(***************************************************************************)
\* the progress events sent so far, and the complete events
ProgressEvents == SelectSeq(sse_events, LAMBDA e : e.type = "progress")
CompleteEvents == SelectSeq(sse_events, LAMBDA e : e.type = "complete")

\* the stream has reached the loop over the databases
C38_Decrypting ==
    /\ C28_Passes
    /\ sse_env[1].decryptor_ok
    /\ sse_pc \notin {"validate", "scan", "decryptor"}

\* The progress events come in pairs, the d-th pair for the d-th database: a
\* "processing" event with current = d, then a "success" or "fail" event with
\* current = d; current never exceeds total; a result event has
\* success_count + fail_count = current; the complete event has
\* success_count + failure_count = total_databases, the successes reported so
\* far, and status "completed" exactly when success_count > 0.
C38_Counts ==
    /\ sse_env /= None =>
         \A i \in 1..Len(ProgressEvents) :
           LET e == ProgressEvents[i]
           IN /\ e.current = (i + 1) \div 2
              /\ e.total = sse_env[1].databases
              /\ e.current <= e.total
              /\ IF i % 2 = 1 THEN e.status = "processing"
                 ELSE /\ e.status \in {"success", "fail"}
                      /\ e.success_count + e.fail_count = e.current
    /\ \A i \in 1..Len(CompleteEvents) :
         LET c == CompleteEvents[i]
         IN /\ c.success_count + c.failure_count = c.total_databases
            /\ c.total_databases = sse_env[1].databases
            /\ c.success_count
                 = Len(SelectSeq(ProgressEvents, LAMBDA e : e.status = "success"))
            /\ (c.status = "completed") <=> (c.success_count > 0)
            /\ c.status \in {"completed", "failed"}

\* at the end of the stream every database has its two events
C38_AllPaired == Len(ProgressEvents) = 2 * sse_env[1].databases

\* C38 as stated: each database produces exactly one "processing" progress
\* event followed by exactly one "success" or "fail" progress event; current
\* increases by 1 per database and never exceeds total; result events have
\* success_count + fail_count = current; the complete event has
\* success_count + failure_count = total_databases and status "completed"
\* exactly when success_count > 0.
C38_EveryDatabasePaired ==
    /\ C38_Counts
    /\ (C38_Decrypting /\ sse_pc = "done") => C38_AllPaired

\* C38, amended: as stated, except that a stream that observes the client
\* disconnected ends there, the database being decrypted having its
\* "processing" event only and the databases after it no event.
C38_PairedUnlessDisconnected ==
    /\ C38_Counts
    /\ (C38_Decrypting /\ sse_pc = "done") =>
         IF sse_locals[1].observed_disconnect
         THEN /\ Len(ProgressEvents) <= 2 * sse_env[1].databases
              /\ Len(ProgressEvents) = sse_locals[1].overall_current
                                         + sse_locals[1].success_count + sse_locals[1].fail_count
              /\ CompleteEvents = <<>>
         ELSE C38_AllPaired /\ Len(CompleteEvents) = 1

\* A finished stream over two databases, one decrypted and one failed, with
\* its complete event.
C38_Witness ==
    /\ sse_pc = "done"
    /\ C38_Decrypting
    /\ sse_env[1].databases = 2
    /\ Len(ProgressEvents) = 4
    /\ ProgressEvents[2].status = "fail" /\ ProgressEvents[4].status = "success"
    /\ Len(CompleteEvents) = 1
    /\ CompleteEvents[1].status = "completed"
    /\ CompleteEvents[1].success_count = 1 /\ CompleteEvents[1].failure_count = 1

(***************************************************************************)
(* The decrypt stream after a disconnect.                                  *)
(***************************************************************************)
\* the stream has observed that the client disconnected
ObservedDisconnect == sse_locals /= None /\ sse_locals[1].observed_disconnect

\* After the observation no event is appended, no task started, no key stored.
C39_Step ==
    ObservedDisconnect =>
        /\ sse_events' = sse_events
        /\ sse_locals'[1].tasks_started = sse_locals[1].tasks_started
        /\ sse_locals'[1].key_stored = sse_locals[1].key_stored

\* A stream that has observed the disconnect has ended without a complete
\* event and without storing the key, and has started the decryption of no
\* more databases than it sent "processing" events for.
C39_Ended ==
    ObservedDisconnect =>
        /\ sse_pc = "done"
        /\ CompleteEvents = <<>>
        /\ ~sse_locals[1].key_stored
        /\ sse_locals[1].tasks_started
             = Len(SelectSeq(ProgressEvents, LAMBDA e : e.status = "processing"))
        /\ ~sse_env[1].connected

\* C39: once the decrypt stream observes that the client has disconnected
\* (before a database or while waiting for a decryption task) it emits no
\* further event, in particular no complete event, starts no further
\* decryption task and does not store the key for the account.
C39_SilentAfterDisconnect == [][C39_Step]_vars /\ []C39_Ended

\* The disconnect is observed while the first of two databases is being
\* decrypted: the stream ends on that database's "processing" event, with one
\* task started and the key not stored.
C39_Witness ==
    /\ ObservedDisconnect
    /\ sse_env[1].databases = 2
    /\ sse_locals[1].tasks_started = 1
    /\ sse_env[1].task = "running"
    /\ Len(ProgressEvents) = 1
    /\ sse_events[Len(sse_events)].type = "progress"
    /\ sse_events[Len(sse_events)].status = "processing"
    /\ ~sse_locals[1].key_stored

(***************************************************************************)
(* Two interleaved calls of upsert_original_once for one new key.          *)
(***************************************************************************)
\* Both calls are over; they were for the same key, and each made its
\* existence check before an insert of that key was committed.
C40_Interleaved ==
    /\ upsert_calls /= None
    /\ \A i \in 1..2 : upsert_calls[1].frames[i].pc = "done"
    /\ RaceKey(1) = RaceKey(2)
    /\ \A i \in 1..2 : ~upsert_calls[1].frames[i].existing

\* C40: when two upsert_original_once calls for the same not-yet-stored key
\* interleave (each performs its existence check before the other's insert
\* commits), both return without error, exactly one record exists
\* afterwards, it holds the snapshot of the call whose insert committed
\* first, and its edit_count is 2.
C40_BothCounted ==
    C40_Interleaved =>
        /\ \A i \in 1..2 : upsert_calls[1].frames[i].raised = ""
        /\ Cardinality(RowsAt(message_edits, RaceKey(1))) = 1
        /\ upsert_calls[1].committed /= <<>>
        /\ \A r \in RowsAt(message_edits, RaceKey(1)) :
             /\ r.edit_count = 2
             /\ r.original_msg_json
                  = MsgJson(upsert_calls[1].frames[upsert_calls[1].committed[1]].call)

====
